---- MODULE Spec2Model ----
(***************************************************************************)
(* Model of the employee bulk upload wizard                                *)
(* (employee_bulk_uploader/wizard/employee_bulk_upload_wizard.py) and of   *)
(* the import log (employee_bulk_uploader/models/import_log.py).           *)
(*                                                                         *)
(* Texts are sequences of one-character strings; the empty text <<>> also  *)
(* stands for an absent cell (None).  Record ids are natural numbers, 0    *)
(* stands for "no record" (None / False / empty recordset).                *)
(***************************************************************************)
EXTENDS Integers, Sequences, FiniteSets, TLC

\* ------------------------------------------------------------------ bounds

\* longest uploaded batch (data lines of the spreadsheet)
MaxRows == 2
\* number of completed confirm runs (import log records) explored
MaxRuns == 1
\* number of store calls that raise during one confirm run
MaxFaults == 1
\* length of the longest text handed to _parse_str on its own
MaxDigits == 11
\* length of the batches of the single-pass specification
LongRows == 3
\* rows of a batch of the runs whose completion is followed to the end
LiveRows == 2
\* required cells left empty at once in a line of the validation batches
MaxBlank == 2

\* ------------------------------------------------------------------- texts

Acme == <<"A", "c", "m", "e">>
Nope == <<"N", "o", "p", "e">>
Ann == <<"A", "n", "n">>
Bob == <<"B", "o", "b">>
Cyd == <<"C", "y", "d">>
Old == <<"O", "l", "d">>
E0 == <<"E", "0">>
E1 == <<"E", "1">>
E2 == <<"E", "2">>
E3 == <<"E", "3">>
D0 == <<"D", "0">>
D1 == <<"D", "1">>
D2 == <<"D", "2">>
D3 == <<"D", "3">>
M0 == <<"o", "@", "x">>
M1 == <<"a", "@", "x">>
M2 == <<"b", "@", "x">>
M3 == <<"c", "@", "x">>
Ops == <<"O", "p", "s">>
Lab == <<"L", "a", "b">>
Dev == <<"D", "e", "v">>
QA == <<"Q", "A">>
Islam == <<"I", "s", "l", "a", "m">>
IslamLower == <<"i", "s", "l", "a", "m">>
BD == <<"B", "D">>
Perm == <<"P", "e", "r", "m">>
Full == <<"F", "u", "l", "l">>
Male == <<"M", "a", "l", "e">>
Addr == <<"R", "d", " ", "1">>
Nid == <<"9", "9">>
Acc1 == <<"B", "1">>
Acc12 == <<"B", "1", ",", " ", "B", "2">>
DateIso == <<"2", "0", "2", "4", "-", "0", "1", "-", "3", "1">>
DateDMY == <<"3", "1", "/", "0", "1", "/", "2", "0", "2", "4">>
DateBad == <<"2", "0", "2", "4", "-", "3", "1", "-", "0", "1">>

\* ------------------------------------------------------------ text helpers

Digits == {"0", "1", "2", "3", "4", "5", "6", "7", "8", "9"}

DigitVal(c) ==
    CASE c = "0" -> 0 [] c = "1" -> 1 [] c = "2" -> 2 [] c = "3" -> 3
      [] c = "4" -> 4 [] c = "5" -> 5 [] c = "6" -> 6 [] c = "7" -> 7
      [] c = "8" -> 8 [] OTHER -> 9

\* str.lower() on the letters the model uses
LowerChar(c) ==
    CASE c = "A" -> "a" [] c = "B" -> "b" [] c = "D" -> "d" [] c = "E" -> "e"
      [] c = "F" -> "f" [] c = "I" -> "i" [] c = "L" -> "l" [] c = "M" -> "m"
      [] c = "N" -> "n" [] c = "O" -> "o" [] c = "P" -> "p" [] c = "Q" -> "q"
      [] c = "R" -> "r" [] OTHER -> c

RECURSIVE Lower(_)
Lower(t) == IF t = <<>> THEN <<>> ELSE <<LowerChar(Head(t))>> \o Lower(Tail(t))

RECURSIVE LStrip(_)
LStrip(t) == IF t # <<>> /\ Head(t) = " " THEN LStrip(Tail(t)) ELSE t

RECURSIVE RStrip(_)
RStrip(t) ==
    IF t # <<>> /\ t[Len(t)] = " " THEN RStrip(SubSeq(t, 1, Len(t) - 1)) ELSE t

\* str.strip()
Strip(t) == RStrip(LStrip(t))

\* str.split(sep): the pieces between the separators, empty pieces included
RECURSIVE Split(_, _)
Split(t, sep) ==
    IF \A i \in 1..Len(t) : t[i] # sep
    THEN <<t>>
    ELSE LET k == CHOOSE i \in 1..Len(t) :
                      t[i] = sep /\ \A j \in 1..(i - 1) : t[j] # sep
         IN <<SubSeq(t, 1, k - 1)>> \o Split(SubSeq(t, k + 1, Len(t)), sep)

\* [b.strip() for b in parts if b.strip()]
RECURSIVE NonEmptyStripped(_)
NonEmptyStripped(parts) ==
    CHOOSE kept \in
        {IF ps = <<>> THEN <<>>
         ELSE (IF Strip(Head(ps)) # <<>> THEN <<Strip(Head(ps))>> ELSE <<>>)
              \o NonEmptyStripped(Tail(ps)) : ps \in {parts}} : TRUE

AllDigits(t) == t # <<>> /\ \A i \in 1..Len(t) : t[i] \in Digits

RECURSIVE NumVal(_)
NumVal(t) ==
    IF t = <<>> THEN 0
    ELSE 10 * NumVal(SubSeq(t, 1, Len(t) - 1)) + DigitVal(t[Len(t)])

\* ---------------------------------------------------------- _parse_str

\* _parse_str on a text cell: '' for an empty cell, else the stripped text,
\* with "0" prepended when the result has 10 characters and starts with "1"
ParseStr(raw) ==
    IF raw = <<>> THEN <<>>
    ELSE LET result == Strip(raw)
         IN IF Len(result) = 10 /\ result[1] = "1"
            THEN <<"0">> \o result
            ELSE result

\* the values openpyxl hands over for a cell: None, a text, an int, a float
\* (whole + tenths / 10) or a date
NoCell == [kind |-> "none"]
TextCell(t) == [kind |-> "text", text |-> t]
IntCell(n) == [kind |-> "int", n |-> n]
FloatCell(whole, tenths) == [kind |-> "float", whole |-> whole, tenths |-> tenths]
DateCell(d) == [kind |-> "date", date |-> d]

\* str(n) for a natural number
RECURSIVE StrNat(_)
StrNat(n) ==
    LET last == CHOOSE c \in Digits : DigitVal(c) = n % 10
    IN IF n < 10 THEN <<last>> ELSE StrNat(n \div 10) \o <<last>>

\* str(raw) for a numeric cell, after `if raw.is_integer(): raw = int(raw)`
StrNum(cell) ==
    IF cell.kind = "int" THEN StrNat(cell.n)
    ELSE IF cell.tenths = 0 THEN StrNat(cell.whole)
    ELSE StrNat(cell.whole) \o <<".">> \o StrNat(cell.tenths)

\* _parse_str on any cell
ParseStrCell(cell) ==
    IF cell.kind = "none" THEN <<>>
    ELSE IF cell.kind = "text" THEN ParseStr(cell.text)
    ELSE LET result == Strip(StrNum(cell))
         IN IF Len(result) = 10 /\ result[1] = "1"
            THEN <<"0">> \o result
            ELSE result

\* ---------------------------------------------------------- _parse_date

NoDate == <<0, 0, 0>>

IsLeap(y) == (y % 4 = 0 /\ y % 100 # 0) \/ y % 400 = 0

DaysIn(y, m) ==
    IF m \in {4, 6, 9, 11} THEN 30
    ELSE IF m = 2 THEN (IF IsLeap(y) THEN 29 ELSE 28)
    ELSE 31

\* one strptime attempt: the three fields of `t` split on `sep`, read in the
\* order given by `order` (positions of year, month, day)
DateOf(ys, ms, ds) ==
    IF /\ AllDigits(ys) /\ Len(ys) = 4
       /\ AllDigits(ms) /\ Len(ms) \in {1, 2}
       /\ AllDigits(ds) /\ Len(ds) \in {1, 2}
       /\ NumVal(ys) >= 1
       /\ NumVal(ms) \in 1..12
       /\ NumVal(ds) \in 1..DaysIn(NumVal(ys), NumVal(ms))
    THEN <<NumVal(ys), NumVal(ms), NumVal(ds)>>
    ELSE NoDate

TryFormat(t, sep, order) ==
    CHOOSE d \in {IF Len(p) # 3 THEN NoDate
                  ELSE DateOf(p[order[1]], p[order[2]], p[order[3]]) :
                  p \in {Split(t, sep)}} : TRUE

\* a _parse_date whose loop tries '%m/%d/%Y' before '%d/%m/%Y'
FirstMatchMonthFirst(t) ==
    LET f1 == TryFormat(t, "-", <<1, 2, 3>>)
        f2 == TryFormat(t, "/", <<3, 1, 2>>)
        f3 == TryFormat(t, "-", <<3, 2, 1>>)
        f4 == TryFormat(t, "/", <<3, 2, 1>>)
    IN IF f1 # NoDate THEN f1
       ELSE IF f2 # NoDate THEN f2
       ELSE IF f3 # NoDate THEN f3
       ELSE f4

\* _parse_date on a text cell: None (NoDate) for an empty cell, else the
\* first of '%Y-%m-%d', '%d/%m/%Y', '%d-%m-%Y', '%m/%d/%Y' that matches
FirstMatch(t) ==
    LET f1 == TryFormat(t, "-", <<1, 2, 3>>)
        f2 == TryFormat(t, "/", <<3, 2, 1>>)
        f3 == TryFormat(t, "-", <<3, 2, 1>>)
        f4 == TryFormat(t, "/", <<3, 1, 2>>)
    IN IF f1 # NoDate THEN f1
       ELSE IF f2 # NoDate THEN f2
       ELSE IF f3 # NoDate THEN f3
       ELSE f4

ParseDate(raw) ==
    CHOOSE d \in {IF raw = <<>> THEN NoDate ELSE FirstMatch(t) :
                  t \in {Strip(raw)}} : TRUE

\* _parse_date on a cell that holds nothing, a text or a date
ParseDateCell(cell) ==
    IF cell.kind = "none" THEN NoDate
    ELSE IF cell.kind = "date" THEN cell.date
    ELSE ParseDate(cell.text)

\* ------------------------------------------------------ COLUMN_MAP, rows

\* the recognized headers (keys of COLUMN_MAP)
Headers ==
    {"Business Unit", "Employee Name", "Employee ID", "Device ID",
     "Joining Date", "Department", "Designation", "Supervisor",
     "Dotted Supervisor", "Line Manager", "Work Email", "Work Mobile",
     "Work Phone Number", "Personal Phone", "Private Email",
     "Permanent Address", "Present Address", "Date of Birth", "Gender",
     "Religion", "Blood Group", "NID No", "TIN Number", "Place of Birth",
     "Nationality (Country)", "Employee Type", "Employment Type",
     "Bank Accounts"}

\* row_data.get(label): the cell under a header, absent (None) when the row
\* has no such header
Get(row_data, label) ==
    IF label \in DOMAIN row_data.cells THEN row_data.cells[label] ELSE <<>>

\* a data line with every required column filled and nothing else
BaseCells ==
    [h \in Headers |->
        CASE h = "Business Unit" -> Acme
          [] h = "Employee Name" -> Bob
          [] h = "Employee ID" -> E2
          [] h = "Device ID" -> D2
          [] h = "Work Email" -> M2
          [] h = "Joining Date" -> DateIso
          [] h = "Permanent Address" -> Addr
          [] h = "Present Address" -> Addr
          [] h = "Date of Birth" -> DateDMY
          [] h = "Gender" -> Male
          [] h = "Religion" -> Islam
          [] h = "NID No" -> Nid
          [] h = "Place of Birth" -> Addr
          [] h = "Nationality (Country)" -> BD
          [] h = "Employee Type" -> Full
          [] h = "Employment Type" -> Perm
          [] OTHER -> <<>>]

With(cells, h, v) == [cells EXCEPT ![h] = v]

\* Ann: own keys, a department and a job the store does not have, two bank
\* accounts, religion spelled in lower case
CellsA ==
    With(With(With(With(With(With(With(With(BaseCells,
        "Employee Name", Ann), "Employee ID", E1), "Device ID", D1),
        "Work Email", M1), "Department", Lab), "Designation", QA),
        "Bank Accounts", Acc12), "Religion", IslamLower)

\* Bob: own keys, nothing optional
CellsB == BaseCells

\* Bob's device and email under Ann's ID number
CellsB1 == With(BaseCells, "Employee ID", E1)

\* Bob's keys on a line without a name
CellsBad == With(BaseCells, "Employee Name", <<>>)

\* Cyd: own keys, the department and the job the store has, one bank account
CellsC ==
    With(With(With(With(With(With(With(BaseCells,
        "Employee Name", Cyd), "Employee ID", E3), "Device ID", D3),
        "Work Email", M3), "Department", Ops), "Designation", Dev),
        "Bank Accounts", Acc1)

RowPool == {CellsA, CellsB, CellsB1, CellsBad}

\* the lines of the batches of the single-pass specification
RunPool == {CellsA, CellsB, CellsC}

RunBatches == [1..LongRows -> RunPool]
LiveBatches == [1..LiveRows -> RunPool]

\* the spreadsheets that can be uploaded: a header row and 1..MaxRows lines
Batches == UNION {[1..n -> RowPool] : n \in 1..MaxRows}

\* a line of the sheet whose cells are all empty
EmptyCells == [h \in Headers |-> <<>>]

\* spreadsheets with an empty line before or between the data lines
GapBatches == {<<EmptyCells, CellsB>>, <<CellsA, EmptyCells, CellsB>>}

\* REQUIRED_HEADERS: the headers of the columns whose field is required
RequiredLabels ==
    {"Business Unit", "Employee Name", "Employee ID", "Device ID",
     "Work Email", "Joining Date", "Permanent Address", "Present Address",
     "Date of Birth", "Gender", "Religion", "NID No", "Place of Birth",
     "Nationality (Country)", "Employee Type", "Employment Type"}

\* a cell that holds one space
Blank == <<" ">>

\* the line `cells` with the cells under the headers of S left empty
Blanked(cells, S) == [h \in Headers |-> IF h \in S THEN <<>> ELSE cells[h]]

\* Bob's line with at most MaxBlank required cells left empty
MissingPool ==
    {Blanked(BaseCells, S) :
        S \in {T \in SUBSET RequiredLabels : Cardinality(T) <= MaxBlank}}

\* Bob's line with a cell that holds only a space
SpacePool ==
    {With(BaseCells, h, Blank) :
        h \in {"Date of Birth", "Joining Date", "Employee Name"}}

\* Bob's line with dates in other formats, or no dates
DatePool ==
    {With(With(BaseCells, "Joining Date", j), "Date of Birth", b) :
        j \in {DateIso, DateDMY, DateBad}, b \in {DateDMY, DateBad, <<>>}}

\* Bob's line with keys of the person and the account the store has
KeyPool ==
    {With(With(With(BaseCells, "Employee ID", i), "Device ID", d),
          "Work Email", m) :
        i \in {E0, E2, <<>>}, d \in {D0, D2}, m \in {M0, M2}}

\* the spreadsheets validated on their own: one line of the pools above, or
\* a batch of Batches
ValBatches ==
    {<<c>> : c \in MissingPool \cup SpacePool \cup DatePool \cup KeyPool}
    \cup Batches

NoFile == [kind |-> "none", lines |-> <<>>]
BadFile == [kind |-> "unreadable", lines |-> <<>>]
HeaderlessFile == [kind |-> "empty", lines |-> <<>>]
XlsxFile(b) == [kind |-> "xlsx", lines |-> b]

\* ------------------------------------------------------- directory store

OldEmployee ==
    [id |-> 1, name |-> Old, company_id |-> Acme, employee_id_no |-> E0,
     device_user_id |-> D0, work_email |-> M0, department_id |-> <<>>,
     job_id |-> <<>>, supervisor_id |-> 0, dotted_supervisor_id |-> 0,
     parent_id |-> 0, religion_id |-> <<>>, blood_group_id |-> <<>>,
     country_id |-> <<>>, contract_type_id |-> <<>>,
     joining_date |-> NoDate, birthday |-> NoDate, sex |-> <<>>,
     bank_account_ids |-> {}, user_id |-> 2]

OldUser == [id |-> 2, login |-> M0, name |-> Old, company_id |-> Acme]

\* the store the wizard is opened on: one company, one department, one job,
\* one religion, one country, one employee with an account
InitStore ==
    [company |-> {Acme},
     department |-> {<<Ops, Acme>>},
     job |-> {Dev},
     religion |-> {Islam},
     blood_group |-> {},
     country |-> {BD},
     contract_type |-> {},
     bank |-> {},
     employee |-> {OldEmployee},
     users |-> {OldUser},
     next_id |-> 3]

\* an ID number of ten characters that begins with "1"
TenId == <<"1", "0", "0", "0", "0", "0", "0", "0", "4", "2">>

\* an employee entered by hand, without an account, whose ID number is TenId
Boss ==
    [OldEmployee EXCEPT !.id = 3, !.name = <<"B", "o", "s", "s">>,
                        !.employee_id_no = TenId,
                        !.device_user_id = <<"D", "9">>,
                        !.work_email = <<"s", "@", "x">>, !.user_id = 0]

\* an employee entered by hand, without an account and without an e-mail,
\* whose ID number reads like the e-mail of the old employee
Twin ==
    [OldEmployee EXCEPT !.id = 4, !.name = <<"T", "w", "i", "n">>,
                        !.employee_id_no = M0,
                        !.device_user_id = <<"D", "8">>,
                        !.work_email = <<>>, !.user_id = 0]

\* the store with those employees in it
RefStore ==
    [InitStore EXCEPT !.employee = @ \cup {Boss, Twin}, !.next_id = 5]

\* search([...], limit=1) on hr.employee / res.users: the first match, none
\* is id 0
NoRecord == [id |-> 0, name |-> <<>>]

First(matches) ==
    IF matches = {} THEN NoRecord
    ELSE CHOOSE r \in matches : \A q \in matches : r.id <= q.id

SearchEmployee(st, field, value) ==
    First({e \in st.employee : e[field] = value})

SearchUser(st, login) == First({u \in st.users : u.login = login})

\* search([('name', '=ilike', name)], limit=1) on a lookup table of names
SearchILike(names, name) ==
    LET hit == {n \in names : Lower(n) = Lower(name)}
    IN IF hit = {} THEN <<>> ELSE CHOOSE n \in hit : TRUE

\* a resolution that searches by work email first, then by ID number
ResolveEmailFirst(st, ref) ==
    IF ref = <<>> THEN 0
    ELSE LET emp == SearchEmployee(st, "work_email", ref)
         IN IF emp.id # 0 THEN emp.id
            ELSE SearchEmployee(st, "employee_id_no", ref).id

\* _resolve_employee_ref: by ID number first, then by work email
ResolveEmployeeRef(st, ref) ==
    IF ref = <<>> THEN 0
    ELSE LET emp == SearchEmployee(st, "employee_id_no", ref)
         IN IF emp.id # 0 THEN emp.id
            ELSE SearchEmployee(st, "work_email", ref).id

\* ------------------------------------------------------------ _parse_excel

\* a reader that numbers only the lines it keeps
RECURSIVE ParseLinesDense(_, _)
ParseLinesDense(lines, row_idx) ==
    IF lines = <<>> THEN <<>>
    ELSE LET row_vals == Head(lines)
         IN IF \A h \in DOMAIN row_vals : Strip(row_vals[h]) = <<>>
            THEN ParseLinesDense(Tail(lines), row_idx)
            ELSE <<[no |-> row_idx, cells |-> row_vals]>>
                 \o ParseLinesDense(Tail(lines), row_idx + 1)

\* the data lines of a readable file, numbered as enumerate(rows_iter,
\* start=2) numbers them; lines whose cells are all empty are skipped
RECURSIVE ParseLines(_, _)
ParseLines(lines, row_idx) ==
    IF lines = <<>> THEN <<>>
    ELSE LET row_vals == Head(lines)
             rest == ParseLines(Tail(lines), row_idx + 1)
         IN IF \A h \in DOMAIN row_vals : Strip(row_vals[h]) = <<>>
            THEN rest
            ELSE <<[no |-> row_idx, cells |-> row_vals]>> \o rest

FirstDataRow == 2

ParseExcel(f) == ParseLines(f.lines, FirstDataRow)

\* the UserError _parse_excel raises, "" when the file is readable; with no
\* file b64decode(False) raises inside the first try block
ParseError(f) ==
    CASE f.kind \in {"none", "unreadable"} -> "Could not read Excel file"
      [] f.kind = "empty" -> "The Excel file appears to be empty."
      [] OTHER -> ""

\* the UserError action_validate raises before it reads a row: the
\* `if not self.file` guard, then _parse_excel
FileError(f) ==
    IF f.kind = "none" THEN "Please upload an Excel file first."
    ELSE ParseError(f)

\* ----------------------------------------------------------- _validate_row

Err(code, label, value, row, name) ==
    [code |-> code, label |-> label, value |-> value, row |-> row, name |-> name]

If(cond, e) == IF cond THEN <<e>> ELSE <<>>

Required(label) == Err("required", label, <<>>, 0, <<>>)

\* the three duplicate checks against one existing preview line
BatchErrorsOf(ln, emp_id_no, device_id, work_email) ==
    If(emp_id_no # <<>> /\ ln.employee_id_no = emp_id_no,
       Err("duplicate", "Employee ID", emp_id_no, ln.row_no, <<>>))
    \o If(device_id # <<>> /\ ln.device_user_id = device_id,
          Err("duplicate", "Device ID", device_id, ln.row_no, <<>>))
    \o If(work_email # <<>> /\ ln.work_email = work_email,
          Err("duplicate", "Work Email", work_email, ln.row_no, <<>>))

\* for ln in self.line_ids: ...
RECURSIVE BatchErrors(_, _, _, _)
BatchErrors(line_ids, emp_id_no, device_id, work_email) ==
    IF line_ids = <<>> THEN <<>>
    ELSE BatchErrorsOf(Head(line_ids), emp_id_no, device_id, work_email)
         \o BatchErrors(Tail(line_ids), emp_id_no, device_id, work_email)

\* the supervisor / dotted supervisor / line manager check of one label
RefErrors(st, row_data, label) ==
    LET raw_val == Strip(Get(row_data, label))
    IN If(raw_val # <<>> /\ ResolveEmployeeRef(st, raw_val) = 0,
          Err("unresolved", label, raw_val, 0, <<>>))

\* a validation that does not look into the store
StoreErrorsNone(st, emp_id_no, device_id, work_email) == <<>>

\* uniqueness checks that stop at the first key found in the store
StoreErrorsFirstOnly(st, emp_id_no, device_id, work_email) ==
    LET by_id == SearchEmployee(st, "employee_id_no", emp_id_no)
        by_device == SearchEmployee(st, "device_user_id", device_id)
        by_login == SearchUser(st, work_email)
    IN IF emp_id_no # <<>> /\ by_id.id # 0
       THEN <<Err("exists", "Employee ID", emp_id_no, 0, by_id.name)>>
       ELSE IF device_id # <<>> /\ by_device.id # 0
       THEN <<Err("exists", "Device ID", device_id, 0, by_device.name)>>
       ELSE If(work_email # <<>> /\ by_login.id # 0,
               Err("exists", "Work Email", work_email, 0, by_login.name))

\* uniqueness checks (in existing DB): three independent `if`s, each with
\* its own search
StoreErrors(st, emp_id_no, device_id, work_email) ==
    LET by_id == SearchEmployee(st, "employee_id_no", emp_id_no)
        by_device == SearchEmployee(st, "device_user_id", device_id)
        by_login == SearchUser(st, work_email)
    IN If(emp_id_no # <<>> /\ by_id.id # 0,
          Err("exists", "Employee ID", emp_id_no, 0, by_id.name))
       \o If(device_id # <<>> /\ by_device.id # 0,
             Err("exists", "Device ID", device_id, 0, by_device.name))
       \o If(work_email # <<>> /\ by_login.id # 0,
             Err("exists", "Work Email", work_email, 0, by_login.name))

\* a department branch that creates the missing department during validation
DepartmentCreated(st, cmd, dept_key) ==
    IF cmd /\ dept_key[1] # <<>> /\ dept_key \notin st.department
    THEN [st EXCEPT !.department = @ \cup {dept_key}]
    ELSE st

\* the store after the department branch: the branch only searches
\* hr.department; with create_missing_departments it adds a warning
DepartmentChecked(st, cmd, dept_key) == st

\* a validation that takes every company name for a company of the store
CompanyAssumed(st, company_name) == TRUE

\* `company_id` is set: the name is filled and a company has it
CompanyResolved(st, company_name) ==
    company_name # <<>> /\ company_name \in st.company

\* a department search that ignores the company
DepartmentMissingAnywhere(st, dept_name, company_name) ==
    \A key \in st.department : key[1] # dept_name

\* the search by name and company_id finds no department
DepartmentMissing(st, dept_name, company_name) ==
    <<dept_name, company_name>> \notin st.department

\* _validate_row(row_data) with self.line_ids, the two create-missing flags
\* and the store as it finds them; gives the values of the preview line and
\* the store as it leaves it
ValidateRow(line_ids, cmd, cmj, st, row_data) ==
    LET company_name == ParseStr(Get(row_data, "Business Unit"))
        emp_name == ParseStr(Get(row_data, "Employee Name"))
        emp_id_no == ParseStr(Get(row_data, "Employee ID"))
        device_id == ParseStr(Get(row_data, "Device ID"))
        work_email == ParseStr(Get(row_data, "Work Email"))
        dept_name == ParseStr(Get(row_data, "Department"))
        job_name == ParseStr(Get(row_data, "Designation"))
        required ==
            If(company_name = <<>>, Required("Business Unit"))
            \o If(emp_name = <<>>, Required("Employee Name"))
            \o If(emp_id_no = <<>>, Required("Employee ID"))
            \o If(device_id = <<>>, Required("Device ID"))
            \o If(work_email = <<>>, Required("Work Email"))
            \o If(ParseStr(Get(row_data, "Permanent Address")) = <<>>,
                  Required("Permanent Address"))
            \o If(ParseStr(Get(row_data, "Present Address")) = <<>>,
                  Required("Present Address"))
            \o If(Get(row_data, "Date of Birth") = <<>>,
                  Required("Date of Birth"))
            \o If(ParseStr(Get(row_data, "Gender")) = <<>>, Required("Gender"))
            \o If(ParseStr(Get(row_data, "Religion")) = <<>>,
                  Required("Religion"))
            \o If(ParseStr(Get(row_data, "NID No")) = <<>>, Required("NID No"))
            \o If(ParseStr(Get(row_data, "Place of Birth")) = <<>>,
                  Required("Place of Birth"))
            \o If(ParseStr(Get(row_data, "Nationality (Country)")) = <<>>,
                  Required("Nationality (Country)"))
            \o If(ParseStr(Get(row_data, "Employee Type")) = <<>>,
                  Required("Employee Type"))
            \o If(ParseStr(Get(row_data, "Employment Type")) = <<>>,
                  Required("Employment Type"))
        company_found == CompanyResolved(st, company_name)
        company ==
            If(company_name # <<>> /\ company_name \notin st.company,
               Err("not_found", "Business Unit", company_name, 0, <<>>))
        in_store == StoreErrors(st, emp_id_no, device_id, work_email)
        in_batch == BatchErrors(line_ids, emp_id_no, device_id, work_email)
        department ==
            If(/\ dept_name # <<>>
               /\ company_found
               /\ DepartmentMissing(st, dept_name, company_name)
               /\ ~cmd,
               Err("not_found", "Department", dept_name, 0, company_name))
        job ==
            If(job_name # <<>> /\ job_name \notin st.job /\ ~cmj,
               Err("not_found", "Designation", job_name, 0, <<>>))
        refs ==
            RefErrors(st, row_data, "Supervisor")
            \o RefErrors(st, row_data, "Dotted Supervisor")
            \o RefErrors(st, row_data, "Line Manager")
        joining_date_raw == Get(row_data, "Joining Date")
        dob_raw == Get(row_data, "Date of Birth")
        dates ==
            (IF joining_date_raw = <<>> \/ Strip(joining_date_raw) = <<>>
             THEN <<Required("Joining Date")>>
             ELSE If(ParseDate(joining_date_raw) = NoDate,
                     Err("unparseable", "Joining Date", joining_date_raw, 0, <<>>)))
            \o If(/\ dob_raw # <<>>
                  /\ Strip(dob_raw) # <<>>
                  /\ ParseDate(dob_raw) = NoDate,
                  Err("unparseable", "Date of Birth", dob_raw, 0, <<>>))
        errors ==
            required \o company \o in_store \o in_batch \o department \o job
            \o refs \o dates
    IN [vals |->
            [row_no |-> row_data.no,
             employee_id_no |-> emp_id_no,
             device_user_id |-> device_id,
             name |-> emp_name,
             work_email |-> work_email,
             company |-> company_name,
             department |-> dept_name,
             job |-> job_name,
             is_valid |-> Len(errors) = 0,
             import_status |-> "pending",
             error_text |-> errors],
        store |-> DepartmentChecked(st, cmd, <<dept_name, company_name>>)]

\* the loop of action_validate: every row is validated against the same
\* self.line_ids (already unlinked, and written only after the loop), the
\* results are collected in validated_lines
RECURSIVE ValidateRows(_, _, _, _, _)
ValidateRows(rows_, line_ids, cmd, cmj, st) ==
    IF rows_ = <<>> THEN [validated_lines |-> <<>>, store |-> st]
    ELSE LET one == ValidateRow(line_ids, cmd, cmj, st, Head(rows_))
             rest == ValidateRows(Tail(rows_), line_ids, cmd, cmj, one.store)
         IN [validated_lines |-> <<one.vals>> \o rest.validated_lines,
             store |-> rest.store]

\* -------------------------------------------------------------- _import_row

\* _GENDER_MAP.get(gender_raw, False)
GenderOf(gender_raw) ==
    IF gender_raw \in {<<"m", "a", "l", "e">>, <<"f", "e", "m", "a", "l", "e">>,
                       <<"o", "t", "h", "e", "r">>}
    THEN gender_raw
    ELSE <<>>

\* a country lookup that creates the country when no country has the name
CountryCreated(names, name) ==
    IF name = <<>> \/ SearchILike(names, name) # <<>>
    THEN [table |-> names,
          id |-> IF name = <<>> THEN <<>> ELSE SearchILike(names, name)]
    ELSE [table |-> names \cup {name}, id |-> name]

\* search by '=ilike' without create (country): the table is left as it is,
\* the field is empty when no record has the name
LookupOnly(names, name) ==
    [table |-> names,
     id |-> IF name = <<>> THEN <<>> ELSE SearchILike(names, name)]

\* search by '=ilike' and create when absent (religion, blood group,
\* contract type): the table afterwards and the name of the record used
FindOrCreate(names, name) ==
    IF name = <<>> THEN [table |-> names, id |-> <<>>]
    ELSE IF SearchILike(names, name) # <<>>
    THEN [table |-> names, id |-> SearchILike(names, name)]
    ELSE [table |-> names \cup {name}, id |-> name]

\* the bank-account loop: every account number is found or created
RECURSIVE BankTable(_, _)
BankTable(bank, bank_acc_list) ==
    IF bank_acc_list = <<>> THEN bank
    ELSE BankTable(bank \cup {Head(bank_acc_list)}, Tail(bank_acc_list))

\* the places where a store call of _import_row can raise
\*   "lookup"  a call of the resolution phase (before the employee is
\*             created); nothing catches it
\*   "person"  hr.employee create/write; caught, returned as {'error': ...}
\*   "bank"    res.partner.bank search/create or the attach; nothing catches it
\*   "user"    res.users create, password, link; caught, returned as error
ImportFailures == {"none", "lookup", "person", "bank", "user"}

ImportReturn(st, kind, error, result) ==
    [store |-> st, kind |-> kind, error |-> error, result |-> result]

NoResult ==
    [employee_name |-> <<>>, login_email |-> <<>>, company |-> <<>>,
     department |-> <<>>, designation |-> <<>>]

\* the columns _import_row reads from `row_data`, as it reads them
RowValues(row_data) ==
    [company_name |-> ParseStr(Get(row_data, "Business Unit")),
     emp_name |-> ParseStr(Get(row_data, "Employee Name")),
     emp_id_no |-> ParseStr(Get(row_data, "Employee ID")),
     device_id |-> ParseStr(Get(row_data, "Device ID")),
     work_email |-> ParseStr(Get(row_data, "Work Email")),
     dept_name |-> ParseStr(Get(row_data, "Department")),
     job_name |-> ParseStr(Get(row_data, "Designation")),
     supervisor |-> ParseStr(Get(row_data, "Supervisor")),
     dotted_supervisor |-> ParseStr(Get(row_data, "Dotted Supervisor")),
     line_manager |-> ParseStr(Get(row_data, "Line Manager")),
     religion_name |-> ParseStr(Get(row_data, "Religion")),
     bg_name |-> ParseStr(Get(row_data, "Blood Group")),
     country_name |-> ParseStr(Get(row_data, "Nationality (Country)")),
     ct_name |-> ParseStr(Get(row_data, "Employment Type")),
     joining_date |-> ParseDate(Get(row_data, "Joining Date")),
     birthday |-> ParseDate(Get(row_data, "Date of Birth")),
     gender_raw |-> Lower(ParseStr(Get(row_data, "Gender"))),
     bank_accounts_raw |-> ParseStr(Get(row_data, "Bank Accounts"))]

\* the dict _import_row returns for a committed row (the generated
\* password left out)
ResultOf(v) ==
    [employee_name |-> v.emp_name, login_email |-> v.work_email,
     company |-> v.company_name, department |-> v.dept_name,
     designation |-> v.job_name]

\* the body of _import_row on the values `v` read from the row
ImportValues(cmd, cmj, st, v, fail) ==
    LET company_name == v.company_name
        dept_name == v.dept_name
        job_name == v.job_name
        dept_key == <<dept_name, company_name>>
        dept_made == dept_name # <<>> /\ dept_key \notin st.department /\ cmd
        dept_id ==
            IF dept_name # <<>> /\ (dept_key \in st.department \/ cmd)
            THEN dept_key ELSE <<>>
        job_made == job_name # <<>> /\ job_name \notin st.job /\ cmj
        job_id ==
            IF job_name # <<>> /\ (job_name \in st.job \/ cmj)
            THEN job_name ELSE <<>>
        supervisor_id == ResolveEmployeeRef(st, v.supervisor)
        dotted_supervisor_id == ResolveEmployeeRef(st, v.dotted_supervisor)
        parent_id == ResolveEmployeeRef(st, v.line_manager)
        religion == FindOrCreate(st.religion, v.religion_name)
        bg == FindOrCreate(st.blood_group, v.bg_name)
        country == LookupOnly(st.country, v.country_name)
        country_id == country.id
        ct == FindOrCreate(st.contract_type, v.ct_name)
        resolved ==
            [st EXCEPT
                !.department = IF dept_made THEN @ \cup {dept_key} ELSE @,
                !.job = IF job_made THEN @ \cup {job_name} ELSE @,
                !.religion = religion.table,
                !.blood_group = bg.table,
                !.country = country.table,
                !.contract_type = ct.table]
        employee ==
            [id |-> st.next_id, name |-> v.emp_name,
             company_id |-> company_name,
             employee_id_no |-> v.emp_id_no, device_user_id |-> v.device_id,
             work_email |-> v.work_email, department_id |-> dept_id,
             job_id |-> job_id, supervisor_id |-> supervisor_id,
             dotted_supervisor_id |-> dotted_supervisor_id,
             parent_id |-> parent_id, religion_id |-> religion.id,
             blood_group_id |-> bg.id, country_id |-> country_id,
             contract_type_id |-> ct.id,
             joining_date |-> v.joining_date,
             birthday |-> v.birthday,
             sex |-> GenderOf(v.gender_raw),
             bank_account_ids |-> {}, user_id |-> 0]
        with_employee ==
            [resolved EXCEPT !.employee = @ \cup {employee},
                             !.next_id = @ + 1]
        bank_acc_list ==
            IF v.bank_accounts_raw = <<>> THEN <<>>
            ELSE NonEmptyStripped(Split(v.bank_accounts_raw, ","))
        banked ==
            [employee EXCEPT
                !.bank_account_ids = {bank_acc_list[i] : i \in 1..Len(bank_acc_list)}]
        with_banks ==
            [resolved EXCEPT !.employee = @ \cup {banked},
                             !.bank = BankTable(@, bank_acc_list),
                             !.next_id = @ + 1]
        user ==
            [id |-> st.next_id + 1, login |-> v.work_email, name |-> v.emp_name,
             company_id |-> company_name]
        with_user ==
            [with_banks EXCEPT
                !.employee = (@ \ {banked}) \cup {[banked EXCEPT !.user_id = user.id]},
                !.users = @ \cup {user},
                !.next_id = @ + 1]
    IN IF company_name \notin st.company
       THEN ImportReturn(st, "error", "Company not found.", NoResult)
       ELSE IF fail = "lookup"
       THEN ImportReturn(resolved, "raise", "store error", NoResult)
       ELSE IF fail = "person"
       THEN ImportReturn(resolved, "error", "Failed to create employee",
                         NoResult)
       ELSE IF fail = "bank" /\ bank_acc_list # <<>>
       THEN ImportReturn(with_employee, "raise", "store error", NoResult)
       ELSE IF fail = "user"
       THEN ImportReturn(with_banks, "error",
                         "Failed to create user for employee", NoResult)
       ELSE ImportReturn(with_user, "ok", "", ResultOf(v))

\* _import_row(row_data, env) with the two create-missing flags, on store
\* `st`, with the store call named by `fail` raising.  kind is "ok" (the
\* result dict), "error" (the {'error': ...} dict) or "raise" (an exception
\* leaves _import_row); store is the store with the writes made so far.
ImportRow(cmd, cmj, st, row_data, fail) ==
    CHOOSE ret \in {ImportValues(cmd, cmj, st, v, fail) :
                       v \in {RowValues(row_data)}} : TRUE

\* ------------------------------------------------------------------- state

VARIABLES
    file,                        \* wizard.file
    create_missing_departments,  \* wizard flags
    create_missing_jobs,
    stop_on_error,
    line_ids,                    \* preview lines, in row_no order
    state,                       \* "draft" | "preview" | "done"
    import_log_id,               \* 0 or the position of the log in logs
    output_file,
    error_file,
    import_summary,
    store,                       \* the directory store
    logs,                        \* employee.bulk.import.log records
    pc,                          \* "idle", or "loop" inside action_confirm_import
    rows,                        \* locals of the running action_confirm_import
    idx,
    results,
    failed_rows,
    tx,                          \* what the enclosing transaction started from
    attempted,                   \* row numbers _import_row was called for
    committed,                   \* row numbers whose commit went through
    faults,                      \* store calls that raised during the run
    raised,                      \* the error the last operation raised
    lastOp,                      \* the operation that acted last
    prevOp,                      \* the operation that acted before it
    call                         \* a call of a module-level function

vars ==
    <<file, create_missing_departments, create_missing_jobs, stop_on_error,
      line_ids, state, import_log_id, output_file, error_file, import_summary,
      store, logs, pc, rows, idx, results, failed_rows, tx, attempted,
      committed, faults, raised, lastOp, prevOp, call>>

wizardFields ==
    <<file, create_missing_departments, create_missing_jobs, stop_on_error>>
outputs == <<import_log_id, output_file, error_file, import_summary>>
runLocals ==
    <<rows, idx, results, failed_rows, tx, attempted, committed, faults>>

NoError == [kind |-> "none", row |-> 0, text |-> "", errors |-> <<>>]
UserError(text) == [kind |-> "UserError", row |-> 0, text |-> text, errors |-> <<>>]
NoArtifact == [kind |-> "none", content |-> <<>>]
NoSummary == [total |-> 0, imported |-> 0, failed |-> 0]
\* no module-level function is being evaluated
NoCall == [fn |-> "none", raw |-> NoCell, ret |-> <<>>, done |-> FALSE]

\* the fields of a new wizard whose form holds file `f` and the options
\* `c`, opened on the store `st`
OpenedOn(f, c, st) ==
    /\ file = f
    /\ create_missing_departments = c[1]
    /\ create_missing_jobs = c[2]
    /\ stop_on_error = c[3]
    /\ line_ids = <<>>
    /\ state = "draft"
    /\ import_log_id = 0
    /\ output_file = NoArtifact
    /\ error_file = NoArtifact
    /\ import_summary = NoSummary
    /\ store = st
    /\ logs = <<>>
    /\ pc = "idle"
    /\ rows = <<>>
    /\ idx = 0
    /\ results = <<>>
    /\ failed_rows = <<>>
    /\ tx = [store |-> st, line_ids |-> <<>>]
    /\ attempted = {}
    /\ committed = <<>>
    /\ faults = 0
    /\ raised = NoError
    /\ lastOp = "new"
    /\ prevOp = "new"

FormOpened(f, c) == OpenedOn(f, c, InitStore)

\* a new wizard whose form holds file `f` and the options `c`
WizardOpened(f, c) == FormOpened(f, c) /\ call = NoCall

\* the field defaults: no file, every option off
Init == WizardOpened(NoFile, <<FALSE, FALSE, FALSE>>)

\* --------------------------------------------------------- form editing

\* the user picks a file in the form, before the first validation
Upload ==
    /\ pc = "idle"
    /\ state = "draft"
    /\ \E f \in {XlsxFile(b) : b \in Batches \cup GapBatches}
                  \cup {BadFile, HeaderlessFile} :
          file' = f
    /\ lastOp' = "edit"
    /\ prevOp' = lastOp
    /\ UNCHANGED call
    /\ raised' = NoError
    /\ UNCHANGED <<create_missing_departments, create_missing_jobs,
                   stop_on_error, line_ids, state, outputs, store, logs, pc,
                   runLocals>>

\* the option settings explored: the two create-missing options together,
\* the commit policy freely
FlagChoices == {<<c, c, s>> : c \in BOOLEAN, s \in BOOLEAN}

\* the user ticks or unticks the three options of the form, before the
\* first validation
SetFlags ==
    /\ pc = "idle"
    /\ state = "draft"
    /\ \E c \in FlagChoices :
          /\ create_missing_departments' = c[1]
          /\ create_missing_jobs' = c[2]
          /\ stop_on_error' = c[3]
    /\ lastOp' = "edit"
    /\ prevOp' = lastOp
    /\ UNCHANGED call
    /\ raised' = NoError
    /\ UNCHANGED <<file, line_ids, state, outputs, store, logs, pc, runLocals>>

\* ---------------------------------------------------------- action_validate

\* a validation that leaves the lines of the previous pass in place
LinesKept(lines) == lines

\* self.line_ids once self.line_ids.unlink() has run
Unlink(lines) == <<>>

\* an action_validate that clears the old lines before it reads the file
ValidateUnlinksFirst ==
    /\ pc = "idle"
    /\ IF FileError(file) # ""
       THEN /\ raised' = UserError(FileError(file))
            /\ lastOp' = "validate_raised"
            /\ prevOp' = lastOp
            /\ UNCHANGED call
            /\ line_ids' = Unlink(line_ids)
            /\ UNCHANGED <<state, store>>
       ELSE LET v == ValidateRows(ParseExcel(file), Unlink(line_ids),
                                  create_missing_departments,
                                  create_missing_jobs, store)
            IN /\ line_ids' = v.validated_lines
               /\ state' = "preview"
               /\ store' = v.store
               /\ raised' = NoError
               /\ lastOp' = "validate"
               /\ prevOp' = lastOp
               /\ UNCHANGED call
    /\ UNCHANGED <<wizardFields, outputs, logs, pc, runLocals>>

action_validate ==
    /\ pc = "idle"
    /\ IF FileError(file) # ""
       THEN /\ raised' = UserError(FileError(file))
            /\ lastOp' = "validate_raised"
            /\ prevOp' = lastOp
            /\ UNCHANGED call
            /\ UNCHANGED <<line_ids, state, store>>
       ELSE LET v == ValidateRows(ParseExcel(file), Unlink(line_ids),
                                  create_missing_departments,
                                  create_missing_jobs, store)
            IN /\ line_ids' = v.validated_lines
               /\ state' = "preview"
               /\ store' = v.store
               /\ raised' = NoError
               /\ lastOp' = "validate"
               /\ prevOp' = lastOp
               /\ UNCHANGED call
    /\ UNCHANGED <<wizardFields, outputs, logs, pc, runLocals>>

\* ---------------------------------------------------- action_confirm_import

\* line_by_row.get(row_no)
HasLine(lines, row_no) == \E i \in 1..Len(lines) : lines[i].row_no = row_no

LineOf(lines, row_no) ==
    lines[CHOOSE i \in 1..Len(lines) :
              /\ lines[i].row_no = row_no
              /\ \A j \in (i + 1)..Len(lines) : lines[j].row_no # row_no]

\* `if line: line.import_status = ...; line.error_text = ...`
MarkLine(lines, row_no, status) ==
    [i \in 1..Len(lines) |->
        IF lines[i].row_no = row_no
        THEN [lines[i] EXCEPT !.import_status = status]
        ELSE lines[i]]

MarkFailed(lines, row_no, error) ==
    [i \in 1..Len(lines) |->
        IF lines[i].row_no = row_no
        THEN [lines[i] EXCEPT !.import_status = "failed",
                              !.error_text = <<error>>]
        ELSE lines[i]]

CommitError(text) == Err("commit", text, <<>>, 0, <<>>)

\* the row the loop is at
Row == rows[idx]

\* the store calls that can raise while `row_data` is committed
FailuresOf(row_data) ==
    {f \in ImportFailures :
        /\ f = "bank" => ParseStr(Get(row_data, "Bank Accounts")) # <<>>
        /\ f # "none" => faults < MaxFaults}

\* a confirm that starts whatever the state is
AcceptsAny(st) == TRUE

\* `if self.state != 'preview': raise`
Accepts(st) == st = "preview"

\* the guard, the re-read of the file and the locals set up before the loop
ConfirmBeginUpTo(runs) ==
    /\ pc = "idle"
    /\ IF ~Accepts(state)
       THEN /\ raised' = UserError("Please validate the file before importing.")
            /\ lastOp' = "confirm_raised"
            /\ prevOp' = lastOp
            /\ UNCHANGED call
            /\ UNCHANGED <<pc, runLocals>>
       ELSE IF ParseError(file) # ""
       THEN /\ raised' = UserError(ParseError(file))
            /\ lastOp' = "confirm_raised"
            /\ prevOp' = lastOp
            /\ UNCHANGED call
            /\ UNCHANGED <<pc, runLocals>>
       ELSE /\ Len(logs) < runs
            /\ rows' = ParseExcel(file)
            /\ idx' = 1
            /\ results' = <<>>
            /\ failed_rows' = <<>>
            /\ tx' = [store |-> store, line_ids |-> line_ids]
            /\ attempted' = {}
            /\ committed' = <<>>
            /\ faults' = 0
            /\ pc' = "loop"
            /\ raised' = NoError
            /\ lastOp' = "confirm_begin"
            /\ prevOp' = lastOp
            /\ UNCHANGED call
    /\ UNCHANGED <<wizardFields, line_ids, state, outputs, store, logs>>

\* the button pressed in the specifications that follow MaxRuns runs
ConfirmBegin == ConfirmBeginUpTo(MaxRuns)

\* an abort after which the writes of the rows committed so far stay
AbortKeepsWrites(error) ==
    /\ store' = store
    /\ line_ids' = line_ids
    /\ raised' = error
    /\ pc' = "idle"
    /\ lastOp' = "confirm_aborted"
    /\ prevOp' = lastOp
    /\ UNCHANGED call
    /\ UNCHANGED <<idx, results, committed, faults>>

\* an exception leaves action_confirm_import: the enclosing transaction is
\* rolled back, so the store and the preview lines are what they were when
\* the call began ("Single transaction - if anything fails, all fails")
Abort(error) ==
    /\ store' = tx.store
    /\ line_ids' = tx.line_ids
    /\ raised' = error
    /\ pc' = "idle"
    /\ lastOp' = "confirm_aborted"
    /\ prevOp' = lastOp
    /\ UNCHANGED call
    /\ UNCHANGED <<idx, results, committed, faults>>

RowError(kind, row_no, text, errors) ==
    [kind |-> kind, row |-> row_no, text |-> text, errors |-> errors]

\* one pass of the loop of the stop_on_error branch
ConfirmRowStop ==
    /\ pc = "loop"
    /\ stop_on_error
    /\ idx <= Len(rows)
    /\ LET row_no == Row.no
           known == HasLine(line_ids, row_no)
       IN IF known /\ ~LineOf(line_ids, row_no).is_valid
          THEN /\ failed_rows' =
                      Append(failed_rows,
                             [row_no |-> row_no,
                              error |-> LineOf(line_ids, row_no).error_text])
               /\ attempted' = attempted
               /\ Abort(RowError("UserError", row_no,
                                 "has validation errors - aborting import.",
                                 LineOf(line_ids, row_no).error_text))
          ELSE \E fail \in FailuresOf(Row) :
               \E r \in {ImportRow(create_missing_departments,
                                   create_missing_jobs, store, Row, fail)} :
                     /\ attempted' = attempted \cup {row_no}
                     /\ r.kind = "ok" => fail = "none"
                     /\ IF r.kind = "raise"
                        THEN /\ failed_rows' = failed_rows
                             /\ Abort(RowError("Exception", 0, r.error, <<>>))
                        ELSE IF r.kind = "error"
                        THEN /\ failed_rows' = failed_rows
                             /\ Abort(RowError("UserError", row_no,
                                               "failed during import",
                                               <<CommitError(r.error)>>))
                        ELSE /\ store' = r.store
                             /\ line_ids' = MarkLine(line_ids, row_no, "success")
                             /\ results' = Append(results, r.result)
                             /\ committed' = Append(committed, row_no)
                             /\ idx' = idx + 1
                             /\ failed_rows' = failed_rows
                             /\ faults' = faults
                             /\ raised' = NoError
                             /\ lastOp' = "confirm_row"
                             /\ prevOp' = lastOp
                             /\ UNCHANGED call
                             /\ pc' = "loop"
    /\ UNCHANGED <<wizardFields, state, outputs, logs, rows, tx>>

\* a block without a savepoint: what it wrote stays whether it failed or not
NoSavepoint(before, after, failed) == after

\* a savepoint that restores the persons and the accounts only: what the
\* row added to the lookup tables stays
SavepointKeepsLookups(before, after, failed) ==
    IF failed
    THEN [before EXCEPT !.store.department = after.store.department,
                        !.store.job = after.store.job,
                        !.store.religion = after.store.religion,
                        !.store.blood_group = after.store.blood_group,
                        !.store.contract_type = after.store.contract_type,
                        !.store.bank = after.store.bank]
    ELSE after

\* an except clause that lets what is not a UserError through
CaughtOnlyErrors(kind) == kind # "raise"

\* `with env.cr.savepoint()`: leaving the block on an exception, or with the
\* release (flush) failing, restores what the block started from
SavepointExit(before, after, failed) == IF failed THEN before ELSE after

\* `except Exception as exc`: whatever the block raises is caught
Caught(kind) == kind \in {"ok", "error", "raise"}

\* one pass of the loop of the partial branch
ConfirmRowPartial ==
    /\ pc = "loop"
    /\ ~stop_on_error
    /\ idx <= Len(rows)
    /\ LET row_no == Row.no
           known == HasLine(line_ids, row_no)
       IN IF known /\ ~LineOf(line_ids, row_no).is_valid
          THEN /\ failed_rows' =
                      Append(failed_rows,
                             [row_no |-> row_no,
                              error |-> LineOf(line_ids, row_no).error_text])
               /\ line_ids' = MarkLine(line_ids, row_no, "failed")
               /\ idx' = idx + 1
               /\ raised' = NoError
               /\ lastOp' = "confirm_row"
               /\ prevOp' = lastOp
               /\ UNCHANGED call
               /\ UNCHANGED <<store, results, attempted, committed, faults, pc>>
          ELSE \E fail \in FailuresOf(Row), release_fails \in BOOLEAN :
               \E r \in {ImportRow(create_missing_departments,
                                   create_missing_jobs, store, Row, fail)} :
                  LET in_block == r.kind = "ok"
                      failed == ~in_block \/ release_fails
                      text == IF in_block THEN "flush error" ELSE r.error
                      inside ==
                          [store |-> r.store,
                           line_ids |->
                              IF in_block
                              THEN MarkLine(line_ids, row_no, "success")
                              ELSE line_ids]
                      after ==
                          SavepointExit([store |-> store, line_ids |-> line_ids],
                                        inside, failed)
                  IN /\ attempted' = attempted \cup {row_no}
                     /\ r.kind = "ok" => fail = "none"
                     /\ release_fails => in_block /\ faults < MaxFaults
                     /\ IF ~Caught(r.kind)
                        THEN /\ failed_rows' = failed_rows
                             /\ Abort(RowError("Exception", 0, r.error, <<>>))
                        ELSE /\ faults' = IF fail # "none" \/ release_fails
                                          THEN faults + 1 ELSE faults
                             /\ results' =
                                   IF in_block THEN Append(results, r.result)
                                   ELSE results
                             /\ store' = after.store
                             /\ idx' = idx + 1
                             /\ raised' = NoError
                             /\ lastOp' = "confirm_row"
                             /\ prevOp' = lastOp
                             /\ UNCHANGED call
                             /\ pc' = pc
                             /\ IF failed
                                THEN /\ failed_rows' =
                                           Append(failed_rows,
                                                  [row_no |-> row_no,
                                                   error |-> <<CommitError(text)>>])
                                     /\ line_ids' =
                                           MarkFailed(after.line_ids, row_no,
                                                      CommitError(text))
                                     /\ committed' = committed
                                ELSE /\ failed_rows' = failed_rows
                                     /\ line_ids' = after.line_ids
                                     /\ committed' = Append(committed, row_no)
    /\ UNCHANGED <<wizardFields, state, outputs, logs, rows, tx>>

\* _build_output_excel / _build_error_excel: nothing for an empty list
BuildExcel(kind, content) ==
    IF content = <<>> THEN NoArtifact ELSE [kind |-> kind, content |-> content]

\* after the loop: the two reports, the summary, the log record, state done
ConfirmFinish ==
    /\ pc = "loop"
    /\ idx > Len(rows)
    /\ LET output_file_b64 == BuildExcel("output", results)
           error_file_b64 == BuildExcel("errors", failed_rows)
           summary ==
               [total |-> Len(rows), imported |-> Len(results),
                failed |-> Len(failed_rows)]
           log_vals ==
               [imported_count |-> Len(results),
                failed_count |-> Len(failed_rows),
                output_file |-> output_file_b64,
                error_file |-> error_file_b64,
                summary |-> summary]
       IN /\ logs' = Append(logs, log_vals)
          /\ state' = "done"
          /\ import_log_id' = Len(logs) + 1
          /\ output_file' = output_file_b64
          /\ error_file' = error_file_b64
          /\ import_summary' = summary
    /\ pc' = "idle"
    /\ raised' = NoError
    /\ lastOp' = "confirm_done"
    /\ prevOp' = lastOp
    /\ UNCHANGED call
    /\ UNCHANGED <<wizardFields, line_ids, store, runLocals>>

\* ------------------------------------------------- action_download_template

\* list(COLUMN_MAP.keys()): the headers in the order of the map
HeaderOrder ==
    <<"Business Unit", "Employee Name", "Employee ID", "Device ID",
      "Joining Date", "Department", "Designation", "Supervisor",
      "Dotted Supervisor", "Line Manager", "Work Email", "Work Mobile",
      "Work Phone Number", "Personal Phone", "Private Email",
      "Permanent Address", "Present Address", "Date of Birth", "Gender",
      "Religion", "Blood Group", "NID No", "TIN Number", "Place of Birth",
      "Nationality (Country)", "Employee Type", "Employment Type",
      "Bank Accounts">>

\* COLUMN_MAP[header][0]: the field the column is written to
FieldOf(header) ==
    CASE header = "Business Unit" -> "company_id"
      [] header = "Employee Name" -> "name"
      [] header = "Employee ID" -> "employee_id_no"
      [] header = "Device ID" -> "device_user_id"
      [] header = "Joining Date" -> "joining_date"
      [] header = "Department" -> "department_id"
      [] header = "Designation" -> "job_id"
      [] header = "Supervisor" -> "supervisor_id"
      [] header = "Dotted Supervisor" -> "dotted_supervisor_id"
      [] header = "Line Manager" -> "parent_id"
      [] header = "Work Email" -> "work_email"
      [] header = "Work Mobile" -> "mobile_phone"
      [] header = "Work Phone Number" -> "work_phone"
      [] header = "Personal Phone" -> "private_phone"
      [] header = "Private Email" -> "private_email"
      [] header = "Permanent Address" -> "permanent_address"
      [] header = "Present Address" -> "present_address"
      [] header = "Date of Birth" -> "birthday"
      [] header = "Gender" -> "sex"
      [] header = "Religion" -> "religion_id"
      [] header = "Blood Group" -> "blood_group_id"
      [] header = "NID No" -> "identification_id"
      [] header = "TIN Number" -> "tin_number"
      [] header = "Place of Birth" -> "place_of_birth"
      [] header = "Nationality (Country)" -> "country_id"
      [] header = "Employee Type" -> "employee_type"
      [] header = "Employment Type" -> "employee_category"
      [] OTHER -> "bank_account_ids"

REQUIRED_FIELDS ==
    {"company_id", "name", "employee_id_no", "device_user_id", "work_email",
     "joining_date", "permanent_address", "present_address", "birthday",
     "sex", "religion_id", "identification_id", "place_of_birth",
     "country_id", "employee_type", "employee_category"}

REQUIRED_HEADERS == {hdr \in Headers : FieldOf(hdr) \in REQUIRED_FIELDS}

\* the headers whose field type is 'date'
date_headers == {"Joining Date", "Date of Birth"}

\* a template that gives every header the optional style
StyleAlwaysOptional(header) == "optional"

\* the fill and font of a header cell
StyleOf(header) ==
    IF header \in REQUIRED_HEADERS THEN "required" ELSE "optional"

\* the workbook the action builds: one header cell per entry of COLUMN_MAP
Template ==
    [kind |-> "template",
     content |->
        [col_idx \in 1..Len(HeaderOrder) |->
            [header |-> HeaderOrder[col_idx],
             style |-> StyleOf(HeaderOrder[col_idx]),
             number_format |->
                IF HeaderOrder[col_idx] \in date_headers
                THEN "DD/MM/YYYY" ELSE "General"]]]

\* the button has no guard on the state or the file; the workbook is
\* written to output_file
action_download_template ==
    /\ pc = "idle"
    /\ output_file' = Template
    /\ raised' = NoError
    /\ lastOp' = "template"
    /\ prevOp' = lastOp
    /\ UNCHANGED call
    /\ UNCHANGED <<wizardFields, line_ids, state, import_log_id, error_file,
                   import_summary, store, logs, pc, runLocals>>

\* ------------------------------------------------------------ other actors

\* the key triples another session may persist
OtherKeys == {<<E2, D2, M2>>}

\* another session persists an employee and its account; it keeps every key
\* unique in the store
OtherActor ==
    /\ pc = "idle"
    /\ \E k \in OtherKeys :
          /\ SearchEmployee(store, "employee_id_no", k[1]).id = 0
          /\ SearchEmployee(store, "device_user_id", k[2]).id = 0
          /\ SearchUser(store, k[3]).id = 0
          /\ store' =
                [store EXCEPT
                    !.employee = @ \cup
                        {[OldEmployee EXCEPT !.id = store.next_id,
                                             !.employee_id_no = k[1],
                                             !.device_user_id = k[2],
                                             !.work_email = k[3],
                                             !.user_id = store.next_id + 1]},
                    !.users = @ \cup
                        {[OldUser EXCEPT !.id = store.next_id + 1,
                                         !.login = k[3]]},
                    !.next_id = @ + 2]
    /\ lastOp' = "other"
    /\ prevOp' = lastOp
    /\ UNCHANGED call
    /\ raised' = NoError
    /\ UNCHANGED <<wizardFields, line_ids, state, outputs, logs, pc, runLocals>>

\* ----------------------------------------------------------- specification

Next ==
    \/ Upload
    \/ SetFlags
    \/ action_validate
    \/ ConfirmBegin
    \/ ConfirmRowStop
    \/ ConfirmRowPartial
    \/ ConfirmFinish
    \/ action_download_template
    \/ OtherActor

Spec == Init /\ [][Next]_vars

\* One pass through a wizard whose form was filled in before the first
\* button is pressed: validate once, confirm once.
InitRun ==
    \E b \in RunBatches, c \in FlagChoices : WizardOpened(XlsxFile(b), c)

ValidateFirst ==
    /\ state = "draft"
    /\ action_validate

NextRun ==
    \/ ValidateFirst
    \/ ConfirmBegin
    \/ ConfirmRowStop
    \/ ConfirmRowPartial
    \/ ConfirmFinish
    \/ OtherActor

RunSpec == InitRun /\ [][NextRun]_vars

\* The form edited between the buttons: the file and the options are plain
\* writable fields in every state of the wizard.
FormFiles ==
    {NoFile, BadFile, HeaderlessFile, XlsxFile(<<>>)}
    \cup {XlsxFile(<<c>>) : c \in {CellsA, CellsBad}}

\* the user replaces the file by one of `files`, in whatever state the
\* wizard is
EditFileIn(files) ==
    /\ pc = "idle"
    /\ \E f \in files : file' = f
    /\ lastOp' = "edit"
    /\ prevOp' = lastOp
    /\ UNCHANGED call
    /\ raised' = NoError
    /\ UNCHANGED <<create_missing_departments, create_missing_jobs,
                   stop_on_error, line_ids, state, outputs, store, logs, pc,
                   runLocals>>

\* the user ticks or unticks the options, in whatever state the wizard is
EditFlags ==
    /\ pc = "idle"
    /\ \E c \in FlagChoices :
          /\ create_missing_departments' = c[1]
          /\ create_missing_jobs' = c[2]
          /\ stop_on_error' = c[3]
    /\ lastOp' = "edit"
    /\ prevOp' = lastOp
    /\ UNCHANGED call
    /\ raised' = NoError
    /\ UNCHANGED <<file, line_ids, state, outputs, store, logs, pc, runLocals>>

EditFile == EditFileIn(FormFiles)

InitForm ==
    \E f \in FormFiles, c \in FlagChoices : WizardOpened(f, c)

NextForm ==
    \/ EditFile
    \/ EditFlags
    \/ action_validate
    \/ ConfirmBegin
    \/ ConfirmRowStop
    \/ ConfirmRowPartial
    \/ ConfirmFinish

FormSpec == InitForm /\ [][NextForm]_vars

\* Validation on its own: a wizard whose form holds one of the validation
\* batches is validated, any number of times, while another session may
\* write to the store.
InitVal ==
    \E b \in ValBatches, c \in FlagChoices : WizardOpened(XlsxFile(b), c)

NextVal ==
    \/ action_validate
    \/ OtherActor

ValSpec == InitVal /\ [][NextVal]_vars

\* One pass over a line that names a supervisor, a dotted supervisor and a
\* line manager, on a store that no other session writes to.
RefTokens == {<<>>, E0, M0, TenId, Nope}

RefBatches ==
    {<<With(With(With(BaseCells, "Supervisor", s), "Dotted Supervisor", d),
            "Line Manager", l)>> :
        s \in RefTokens, d \in RefTokens, l \in RefTokens}

InitRef ==
    \E b \in RefBatches, c \in FlagChoices :
        OpenedOn(XlsxFile(b), c, RefStore) /\ call = NoCall

NextRef ==
    \/ ValidateFirst
    \/ ConfirmBegin
    \/ ConfirmRowStop
    \/ ConfirmRowPartial
    \/ ConfirmFinish

RefSpec == InitRef /\ [][NextRef]_vars

\* Validation of one line that names a company, a department and a job, with
\* the three options set independently, on a store with two companies.
Beta == <<"B", "e", "t", "a">>

\* the store with a second company that has no department
OrgStore == [InitStore EXCEPT !.company = @ \cup {Beta}]

OrgBatches ==
    {<<With(With(With(BaseCells, "Business Unit", c), "Department", d),
            "Designation", j)>> :
        c \in {Acme, Beta, Nope}, d \in {<<>>, Ops, Lab},
        j \in {<<>>, Dev, QA}}

InitOrg ==
    \E b \in OrgBatches, c \in BOOLEAN \X BOOLEAN \X BOOLEAN :
        OpenedOn(XlsxFile(b), c, OrgStore) /\ call = NoCall

NextOrg == action_validate

OrgSpec == InitOrg /\ [][NextOrg]_vars

\* One line that names a company and a country, known or not, in a form
\* whose file can be replaced between validation and confirm.
Mars == <<"M", "a", "r", "s">>

LookupFiles ==
    {XlsxFile(<<With(With(BaseCells, "Business Unit", c),
                     "Nationality (Country)", n)>>) :
        c \in {Acme, Nope}, n \in {BD, Mars}}

ReplaceFile == EditFileIn(LookupFiles)

InitLookup ==
    \E f \in LookupFiles, c \in FlagChoices : WizardOpened(f, c)

NextLookup ==
    \/ ReplaceFile
    \/ action_validate
    \/ ConfirmBegin
    \/ ConfirmRowStop
    \/ ConfirmRowPartial
    \/ ConfirmFinish

LookupSpec == InitLookup /\ [][NextLookup]_vars

\* The same file validated and confirmed again after a run: one run more
\* than MaxRuns, on a store that no other session writes to.
ConfirmAgain == ConfirmBeginUpTo(MaxRuns + 1)

NextAgain ==
    \/ action_validate
    \/ ConfirmAgain
    \/ ConfirmRowStop
    \/ ConfirmRowPartial
    \/ ConfirmFinish

InitAgain ==
    \E b \in LiveBatches, c \in FlagChoices : WizardOpened(XlsxFile(b), c)

AgainSpec == InitAgain /\ [][NextAgain]_vars

\* The module-level functions evaluated on their own, on one cell.

\* a text of n characters: `first`, then `fill` repeated
Filled(first, fill, n) == [i \in 1..n |-> IF i = 1 THEN first ELSE fill]

\* texts of digits and of other characters, of the lengths around 10, plain
\* or with blanks around them
StrTexts ==
    {<<>>, Blank}
    \cup {pre \o Filled(f, c, n) \o pre :
              pre \in {<<>>, Blank}, f \in {"1", "2"}, c \in {"7", "x"},
              n \in (MaxDigits - 2)..MaxDigits}

\* numeric cells: integers, integral floats and floats with a fraction
StrNumbers ==
    LET N == {0, 12, 171234567, 1712345678, 1012345678, 2012345678}
    IN {IntCell(n) : n \in N}
       \cup {FloatCell(n, t) : n \in N, t \in {0, 5}}

StrCells == {NoCell} \cup {TextCell(t) : t \in StrTexts} \cup StrNumbers

Year2024 == <<"2", "0", "2", "4">>

\* the day and month fields written into the date texts
DateFields ==
    {<<"0", "1">>, <<"1">>, <<"0", "2">>, <<"1", "2">>, <<"1", "3">>,
     <<"3", "1">>}

\* date texts in year-first and year-last layouts with both separators
DateTexts ==
    {<<>>}
    \cup {Year2024 \o <<"-">> \o a \o <<"-">> \o b :
              a \in DateFields, b \in DateFields}
    \cup {a \o <<sep>> \o b \o <<sep>> \o Year2024 :
              a \in DateFields, b \in DateFields, sep \in {"-", "/"}}

DateCells ==
    {NoCell, DateCell(<<2024, 1, 31>>)} \cup {TextCell(t) : t \in DateTexts}

InitCall ==
    /\ FormOpened(NoFile, <<FALSE, FALSE, FALSE>>)
    /\ \/ \E c \in StrCells :
             call = [fn |-> "_parse_str", raw |-> c, ret |-> <<>>,
                     done |-> FALSE]
       \/ \E c \in DateCells :
             call = [fn |-> "_parse_date", raw |-> c, ret |-> <<>>,
                     done |-> FALSE]

\* _parse_str(raw) returns
parse_str ==
    /\ call.fn = "_parse_str"
    /\ ~call.done
    /\ call' = [call EXCEPT !.ret = ParseStrCell(call.raw), !.done = TRUE]
    /\ UNCHANGED <<wizardFields, line_ids, state, outputs, store, logs, pc,
                   runLocals, raised, lastOp, prevOp>>

\* _parse_date(raw) returns
parse_date ==
    /\ call.fn = "_parse_date"
    /\ ~call.done
    /\ call' = [call EXCEPT !.ret = ParseDateCell(call.raw), !.done = TRUE]
    /\ UNCHANGED <<wizardFields, line_ids, state, outputs, store, logs, pc,
                   runLocals, raised, lastOp, prevOp>>

NextCall ==
    \/ parse_str
    \/ parse_date

CallSpec == InitCall /\ [][NextCall]_vars

InitLive ==
    \E b \in LiveBatches, c \in FlagChoices : WizardOpened(XlsxFile(b), c)

\* the call of action_confirm_import runs to its end once it has begun
LiveSpec ==
    /\ InitLive
    /\ [][NextRun]_vars
    /\ WF_vars(ConfirmRowStop)
    /\ WF_vars(ConfirmRowPartial)
    /\ WF_vars(ConfirmFinish)

\* ------------------------------------------------------------- properties

RowNos == {rows[i].no : i \in 1..Len(rows)}

\* a call of action_confirm_import is running or has just returned or raised
InOrAfterRun ==
    lastOp \in {"confirm_begin", "confirm_row", "confirm_done", "confirm_aborted"}

\* C1: action_validate writes nothing to the directory store (no person,
\* account, company, department, job, religion, blood group, country,
\* contract type or bank account is created, changed or deleted) and nothing
\* to the import log, the options, the file or the artifacts; only the
\* preview lines and the state field change.
C1_ValidateWritesNothing ==
    [][lastOp' \in {"validate", "validate_raised"} =>
          /\ store' = store
          /\ logs' = logs
          /\ UNCHANGED <<wizardFields, outputs>>]_vars

\* C1 witness: a validation has run with the create-missing options on, on
\* a batch with a line whose department and job the store does not have
C1_Witness ==
    /\ lastOp = "validate"
    /\ create_missing_departments
    /\ \E i \in 1..Len(line_ids) :
          /\ line_ids[i].is_valid
          /\ line_ids[i].department = Lab
          /\ <<Lab, Acme>> \notin store.department

\* the preview line validation wrote for row number n
Line(n) == LineOf(line_ids, n)

DuplicateOf(n, label, m) ==
    \E k \in 1..Len(Line(n).error_text) :
        /\ Line(n).error_text[k].code = "duplicate"
        /\ Line(n).error_text[k].label = label
        /\ Line(n).error_text[k].row = m

\* C2: after a validation pass, for two rows i < j of the batch with the
\* same non-empty ID number, row j is invalid and carries a duplicate error
\* that names row i.
C2_BatchDuplicateIdRejected ==
    lastOp = "validate" =>
        \A i \in 1..Len(rows), j \in 1..Len(rows) :
            (/\ i < j
             /\ ParseStr(Get(rows[i], "Employee ID")) # <<>>
             /\ ParseStr(Get(rows[i], "Employee ID"))
                    = ParseStr(Get(rows[j], "Employee ID")))
            => /\ ~Line(rows[j].no).is_valid
               /\ DuplicateOf(rows[j].no, "Employee ID", rows[i].no)

KeyLabels == {"Employee ID", "Device ID", "Work Email"}

\* C3: after a validation pass, a row that carries, in any of the three key
\* columns, a non-empty value that an earlier row of the batch carries in
\* the same column is invalid, whether or not the earlier row is valid.
C3_EveryRowRegistersItsKeys ==
    lastOp = "validate" =>
        \A j \in 1..Len(rows) :
            (\E i \in 1..(j - 1), h \in KeyLabels :
                /\ ParseStr(Get(rows[j], h)) # <<>>
                /\ ParseStr(Get(rows[i], h)) = ParseStr(Get(rows[j], h)))
            => ~Line(rows[j].no).is_valid

\* the persons and the accounts the running (or just ended) call has added
NewPersons == store.employee \ tx.store.employee
NewAccounts == store.users \ tx.store.users

\* C4: between two rows of a confirm run and after it has returned or
\* raised, under either policy, every person record the run has added is
\* linked to an account record the run has added for the same login, and
\* every account record the run has added is linked from such a person.
C4_PersonAndAccountTogether ==
    InOrAfterRun =>
        /\ \A e \in NewPersons :
              \E u \in NewAccounts :
                  e.user_id = u.id /\ u.login = e.work_email
        /\ \A u \in NewAccounts :
              \E e \in NewPersons : e.user_id = u.id

\* C4 witness: a partial run has ended in which one row was committed and
\* another failed at the account creation, after its person was created
C4_Witness ==
    /\ lastOp = "confirm_done"
    /\ ~stop_on_error
    /\ NewPersons # {}
    /\ \E k \in 1..Len(failed_rows) :
          failed_rows[k].error
              = <<CommitError("Failed to create user for employee")>>

\* the store a run leaves that commits, without any failure, the rows whose
\* numbers are in `done` and skips the others
RECURSIVE Replay(_, _, _, _, _)
Replay(st, rws, done, cmd, cmj) ==
    IF rws = <<>> THEN st
    ELSE IF Head(rws).no \in done
    THEN Replay(ImportRow(cmd, cmj, st, Head(rws), "none").store, Tail(rws),
                done, cmd, cmj)
    ELSE Replay(st, Tail(rws), done, cmd, cmj)

Committed == {committed[i] : i \in 1..Len(committed)}

\* C5: when a partial run has ended, the store is the store of a run over
\* the same batch that skips every row whose commit failed (at the
\* resolution, the person, the bank accounts, the account or the release of
\* the savepoint): none of the writes of a failed row is left, and the
\* other rows wrote what they write without it.
C5_FailedRowLeavesNoTrace ==
    (lastOp = "confirm_done" /\ ~stop_on_error) =>
        store = Replay(tx.store, rows, Committed,
                       create_missing_departments, create_missing_jobs)

\* C5 witness: a partial run over three valid rows has ended; the second
\* failed at the account creation, after its person, its department and its
\* bank accounts were written, the first and the third were committed
C5_Witness ==
    /\ lastOp = "confirm_done"
    /\ ~stop_on_error
    /\ Len(rows) >= 3
    /\ committed = <<rows[1].no, rows[3].no>>
    /\ rows[2].no \in attempted
    /\ rows[2].cells = CellsA
    /\ create_missing_departments
    /\ Len(failed_rows) = 1
    /\ failed_rows[1].error
           = <<CommitError("Failed to create user for employee")>>

InvalidRows ==
    {n \in RowNos : HasLine(tx.line_ids, n) /\ ~LineOf(tx.line_ids, n).is_valid}

\* C6: in stop-on-error mode a run reaches its end only if no row was
\* invalid and every row was committed; otherwise it is aborted, and after
\* the abort the store is the store action_confirm_import was called on.
C6_StopOnErrorIsAtomic ==
    /\ (lastOp = "confirm_done" /\ stop_on_error) =>
          InvalidRows = {} /\ Committed = RowNos /\ faults = 0
    /\ lastOp = "confirm_aborted" => store = tx.store

\* C6 witness: a stop-on-error run was aborted at its third row after two
\* rows had been committed, one of them with a department created for it
C6_Witness ==
    /\ lastOp = "confirm_aborted"
    /\ stop_on_error
    /\ Len(committed) = 2
    /\ idx = 3
    /\ \E i \in 1..2 : rows[i].cells = CellsA
    /\ <<Lab, Acme>> \notin store.department

\* C7: in stop-on-error mode the run is aborted at the first row that is
\* invalid or whose commit fails, no commit is attempted for a later row,
\* and the error raised names that row's number and its error text.
C7_AbortNamesTheRow ==
    lastOp = "confirm_aborted" =>
        /\ raised.kind = "UserError"
        /\ raised.row = rows[idx].no
        /\ raised.errors # <<>>
        /\ \A n \in attempted : n <= raised.row
        /\ \A i \in 1..(idx - 1) : rows[i].no \in Committed

\* C8: when a partial run has ended, every row of the batch has exactly one
\* outcome: its number is once in the failure list or it is a committed row
\* with one entry in the success list, never both.
C8_OneOutcomePerRow ==
    (lastOp = "confirm_done" /\ ~stop_on_error) =>
        /\ Len(results) + Len(failed_rows) = Len(rows)
        /\ Len(results) = Len(committed)
        /\ \A n \in RowNos :
              Cardinality({k \in 1..Len(failed_rows) : failed_rows[k].row_no = n})
                  = (IF n \in Committed THEN 0 ELSE 1)

\* C9: a partial run, once begun, visits every row and ends with the wizard
\* in state done and one import log record created.
C9_PartialRunCompletes ==
    (pc = "loop" /\ ~stop_on_error)
        ~> (/\ lastOp = "confirm_done"
            /\ state = "done"
            /\ idx = Len(rows) + 1
            /\ Len(logs) = 1
            /\ import_log_id = 1)

\* C9 witness: a partial run has ended that met an invalid row and a row
\* whose commit raised
C9_Witness ==
    /\ lastOp = "confirm_done"
    /\ ~stop_on_error
    /\ InvalidRows # {}
    /\ faults = 1
    /\ Len(logs) = 1

\* no two persons share an ID number or a device identifier, no two
\* accounts share a login
StoreUnique ==
    /\ \A e \in store.employee, q \in store.employee :
          e.id # q.id =>
              /\ e.employee_id_no # q.employee_id_no
              /\ e.device_user_id # q.device_user_id
    /\ \A u \in store.users, w \in store.users :
          u.id # w.id => u.login # w.login

\* C10: whatever validations and confirm runs happen, under either policy,
\* no two persons of the store share an ID number or a device identifier
\* and no two accounts share a login.
C10_StoreKeysStayUnique == pc = "idle" => StoreUnique

\* the positions of the errors of preview line ln that report, for the key
\* column `label`, a record the store already has
ExistsErrors(ln, label) ==
    {k \in 1..Len(ln.error_text) :
        /\ ln.error_text[k].code = "exists"
        /\ ln.error_text[k].label = label}

\* line ln carries exactly one error for the key `label`, with the value
\* and the name of one of the records of `holders`
NamesHolder(ln, label, value, holders) ==
    /\ ~ln.is_valid
    /\ Cardinality(ExistsErrors(ln, label)) = 1
    /\ \A k \in ExistsErrors(ln, label) :
          /\ ln.error_text[k].value = value
          /\ \E r \in holders : ln.error_text[k].name = r.name

\* C11: after a validation pass, a line whose non-empty ID number is the ID
\* number of a person of the store, whose non-empty device identifier is
\* that of a person of the store, or whose non-empty work email is the
\* login of an account of the store is invalid and carries, for each such
\* key, exactly one error that names the existing record; each of the
\* three keys is reported whether or not another one conflicts.
C11_StoreConflictsReported ==
    lastOp = "validate" =>
        \A i \in 1..Len(line_ids) :
            LET ln == line_ids[i]
                same_id ==
                    {e \in store.employee :
                        e.employee_id_no = ln.employee_id_no}
                same_device ==
                    {e \in store.employee :
                        e.device_user_id = ln.device_user_id}
                same_login == {u \in store.users : u.login = ln.work_email}
            IN /\ (ln.employee_id_no # <<>> /\ same_id # {})
                     => NamesHolder(ln, "Employee ID", ln.employee_id_no, same_id)
               /\ (ln.device_user_id # <<>> /\ same_device # {})
                     => NamesHolder(ln, "Device ID", ln.device_user_id,
                                    same_device)
               /\ (ln.work_email # <<>> /\ same_login # {})
                     => NamesHolder(ln, "Work Email", ln.work_email, same_login)

\* C11 witness: a validated line whose three keys are all in the store
\* carries the three errors, each naming the record that holds the key
C11_Witness ==
    /\ lastOp = "validate"
    /\ \E i \in 1..Len(line_ids) :
          /\ line_ids[i].employee_id_no = E0
          /\ line_ids[i].device_user_id = D0
          /\ line_ids[i].work_email = M0
          /\ Len(line_ids[i].error_text) = 3
          /\ \A k \in 1..3 :
                /\ line_ids[i].error_text[k].code = "exists"
                /\ line_ids[i].error_text[k].name = Old

\* a confirm run has just returned or raised
RunEnded == lastOp \in {"confirm_done", "confirm_aborted"}

\* the released savepoint failed for row number n (the entry the except
\* clause wrote for it)
ReleaseFailed(n) ==
    \E k \in 1..Len(failed_rows) :
        /\ failed_rows[k].row_no = n
        /\ failed_rows[k].error = <<CommitError("flush error")>>

\* the rows for which results.append(result) has run
Reported(r) == r.no \in Committed \/ ReleaseFailed(r.no)

\* the rows of the entries of `results`, in the order of the entries
ReportedRows == SelectSeq(rows, Reported)

\* the row numbers listed in the error report the wizard holds
ErrorReportRows ==
    {error_file.content[k].row_no : k \in 1..Len(error_file.content)}

\* C12: when a confirm run has ended, under either policy, no commit was
\* attempted for a row that validation rejected, the row has no entry in
\* the outcome report, and the error report of the run lists it under its
\* row number.
C12_InvalidRowOnlyInErrorReport ==
    RunEnded =>
        \A n \in InvalidRows :
            /\ n \notin attempted
            /\ n \notin Committed
            /\ \A k \in 1..Len(ReportedRows) : ReportedRows[k].no # n
            /\ n \in ErrorReportRows

\* the name of the department a person record points to, empty when none
DepartmentName(department_id) ==
    IF department_id = <<>> THEN <<>> ELSE department_id[1]

\* entry `res` of the outcome report shows what the person e and the
\* account u hold
ShowsRecords(res, e, u) ==
    /\ res.employee_name = e.name
    /\ res.employee_name = u.name
    /\ res.login_email = u.login
    /\ res.login_email = e.work_email
    /\ res.company = e.company_id
    /\ res.company = u.company_id
    /\ res.department = DepartmentName(e.department_id)
    /\ res.designation = e.job_id

\* C13: when a partial run has ended, every row that validation accepted
\* and whose commit succeeded has exactly one entry in the outcome report,
\* and the name, login email, company, department and job of that entry
\* are those of the person and account records the run persisted for the
\* row.
C13_ReportShowsWhatWasPersisted ==
    (lastOp = "confirm_done" /\ ~stop_on_error) =>
        /\ Len(results) = Len(ReportedRows)
        /\ \A n \in Committed :
              /\ n \notin InvalidRows
              /\ Cardinality({k \in 1..Len(ReportedRows) :
                                 ReportedRows[k].no = n}) = 1
        /\ \A k \in 1..Len(ReportedRows) :
              ReportedRows[k].no \in Committed =>
                  \E e \in NewPersons, u \in NewAccounts :
                      /\ e.user_id = u.id
                      /\ e.employee_id_no
                            = ParseStr(Get(ReportedRows[k], "Employee ID"))
                      /\ e.device_user_id
                            = ParseStr(Get(ReportedRows[k], "Device ID"))
                      /\ ShowsRecords(results[k], e, u)

\* C14: a validation pass that directly follows a validation pass, with
\* the file, the options and the store as the first pass left them, writes
\* the preview lines the first pass wrote: same row numbers, same
\* validity, same ordered error lists, same preview fields.
C14_ValidationIsIdempotent ==
    [][(lastOp = "validate" /\ lastOp' = "validate") =>
          line_ids' = line_ids]_vars

\* C14 witness: a second pass in a row has run over a batch of two lines,
\* one accepted and one rejected
C14_Witness ==
    /\ lastOp = "validate"
    /\ prevOp = "validate"
    /\ Len(line_ids) = 2
    /\ \E i, j \in 1..2 :
          /\ line_ids[i].is_valid
          /\ ~line_ids[j].is_valid
          /\ line_ids[j].error_text # <<>>

\* C15: in every reachable state, after a validation and after a confirm
\* run has recorded import statuses and commit errors, a preview line is
\* valid exactly when it has no error text.
C15_ValidIffNoErrors ==
    \A i \in 1..Len(line_ids) :
        line_ids[i].is_valid <=> line_ids[i].error_text = <<>>

\* C16: a confirm run that got past the reading of the file ends, under
\* either policy and also when a row is invalid or a commit fails, with the
\* summary of the run produced: the total, imported and failed counts of
\* its rows, with the artifacts built from its two lists.
C16_RunEndsWithSummary ==
    RunEnded =>
        /\ lastOp = "confirm_done"
        /\ import_summary =
              [total |-> Len(rows), imported |-> Len(results),
               failed |-> Len(failed_rows)]
        /\ output_file = BuildExcel("output", results)
        /\ error_file = BuildExcel("errors", failed_rows)

\* the step ends a confirm run (the call returns, or raises after the file
\* was read)
EndsRun == pc # "idle" /\ pc' = "idle" /\ RunEnded'

\* C17: every step that ends a confirm run creates exactly one log record,
\* whose imported_count is the number of rows of the run that were
\* committed and whose failed_count is the number of rows that were not;
\* no other step creates a log record, and no step of validate, confirm or
\* of another session changes a record that exists.
C17_OneLogPerRun ==
    [][/\ Len(logs') >= Len(logs)
       /\ SubSeq(logs', 1, Len(logs)) = logs
       /\ IF EndsRun
             THEN /\ Len(logs') = Len(logs) + 1
                  /\ logs'[Len(logs')].imported_count =
                        Cardinality(Committed')
                  /\ logs'[Len(logs')].failed_count =
                        Cardinality(RowNos' \ Committed')
             ELSE logs' = logs]_vars

\* the step is a call of action_validate, or a call of
\* action_confirm_import that got past the state guard
ReadsFile ==
    /\ pc = "idle"
    /\ \/ lastOp' \in {"validate", "validate_raised"}
       \/ lastOp' \in {"confirm_begin", "confirm_raised"} /\ state = "preview"

\* C18: when the form holds no file, an unreadable file or a sheet with no
\* first row, a call of action_validate and a call of action_confirm_import
\* raise the input-format error without entering the row loop, and the
\* preview lines, the wizard state, the import log, the directory store and
\* the artifacts are what they were before the call.
C18_FormatErrorChangesNothing ==
    [][(ReadsFile /\ file.kind # "xlsx") =>
          /\ lastOp' \in {"validate_raised", "confirm_raised"}
          /\ raised' =
                UserError(IF lastOp' = "validate_raised"
                          THEN FileError(file) ELSE ParseError(file))
          /\ pc' = "idle"
          /\ line_ids' = line_ids
          /\ state' = state
          /\ logs' = logs
          /\ store' = store
          /\ UNCHANGED <<wizardFields, outputs, runLocals>>]_vars

\* C18 witness: on a wizard in preview whose lines list a row, the file was
\* replaced by an unreadable one; action_validate raised, then
\* action_confirm_import raised the input-format error, with the lines kept.
C18_Witness ==
    /\ prevOp = "validate_raised"
    /\ lastOp = "confirm_raised"
    /\ raised = UserError("Could not read Excel file")
    /\ file = BadFile
    /\ state = "preview"
    /\ Len(line_ids) = 1

\* the required headers whose cell in the row is empty once stripped
MissingIn(row_data) ==
    {label \in RequiredLabels : Strip(Get(row_data, label)) = <<>>}

\* the number of required-field errors the line carries for the header
RequiredErrors(ln, label) ==
    Cardinality({k \in 1..Len(ln.error_text) :
                    ln.error_text[k] = Required(label)})

\* C19: after a validation pass every preview line carries, for each of the
\* 16 required headers, exactly one required-field error when the cell of
\* its row is empty after stripping and none otherwise: a row with k
\* required cells missing carries exactly k required-field errors.
C19_OneErrorPerMissingField ==
    state = "preview" =>
        \A i \in 1..Len(line_ids) :
            \A label \in RequiredLabels :
                RequiredErrors(line_ids[i], label) =
                    IF label \in MissingIn(ParseExcel(file)[i]) THEN 1 ELSE 0

\* the errors of the line that are about the header
ErrorsAbout(ln, label) ==
    {ln.error_text[k] : k \in {j \in 1..Len(ln.error_text) :
                                   ln.error_text[j].label = label}}

\* what the date rule asks of the line `ln` validated from the row
DateRule(ln, row_data) ==
    LET joining == Get(row_data, "Joining Date")
        dob == Get(row_data, "Date of Birth")
    IN /\ ErrorsAbout(ln, "Joining Date") =
             IF Strip(joining) = <<>> THEN {Required("Joining Date")}
             ELSE IF ParseDate(joining) = NoDate
             THEN {Err("unparseable", "Joining Date", joining, 0, <<>>)}
             ELSE {}
       /\ ErrorsAbout(ln, "Date of Birth") =
             IF Strip(dob) # <<>> /\ ParseDate(dob) = NoDate
             THEN {Err("unparseable", "Date of Birth", dob, 0, <<>>)}
             ELSE {}
       /\ (dob = <<>> /\ \A k \in 1..Len(ln.error_text) :
                            ln.error_text[k].label = "Date of Birth")
             => ln.is_valid

\* C20: after a validation pass, a line has a required-field error for the
\* joining date when the cell is empty and a parse error when it does not
\* parse; it has a parse error for the date of birth when the cell is
\* filled and does not parse, and no error about the date of birth when the
\* cell is absent, so a row with no date of birth and no other defect is
\* valid.
C20_DateOfBirthMayBeAbsent ==
    state = "preview" =>
        \A i \in 1..Len(line_ids) :
            DateRule(line_ids[i], ParseExcel(file)[i])

\* the positions, among the lines below the header row, of the lines of the
\* sheet that are not entirely empty
DataPositions(f) ==
    {p \in 1..Len(f.lines) :
        \E h \in Headers : Strip(f.lines[p][h]) # <<>>}

\* the preview lines, and the rows of the run when one is in progress, are
\* the data lines of the sheet, each numbered by its position plus `offset`
NumberedFrom(offset) ==
    /\ state = "preview" =>
          /\ {line_ids[i].row_no : i \in 1..Len(line_ids)} =
                {p + offset : p \in DataPositions(file)}
          /\ Len(line_ids) = Cardinality(DataPositions(file))
          /\ \A i \in 1..Len(line_ids) :
                line_ids[i].row_no - offset \in 1..Len(file.lines) =>
                    line_ids[i].name =
                        ParseStr(file.lines[line_ids[i].row_no - offset]
                                     ["Employee Name"])
    /\ pc = "loop" =>
          /\ {rows[i].no : i \in 1..Len(rows)} =
                {p + offset : p \in DataPositions(file)}
          /\ Len(rows) = Cardinality(DataPositions(file))
          /\ \A i \in 1..Len(rows) :
                rows[i].no - offset \in 1..Len(file.lines) =>
                    rows[i].cells = file.lines[rows[i].no - offset]

\* C21 as stated: the row number of a data line is its position among the
\* lines below the header row (the first line below the header has row
\* number 1), it is unique within a run, and validation and confirm give
\* the same line the same number.
C21_RowNumberExcludesHeader == NumberedFrom(0)

\* C21: the row number of a data line is its row in the sheet, the header
\* row being row 1 and empty lines counted (the first line below the
\* header has row number 2); it is unique within a run, and validation and
\* confirm give the same line of an unchanged file the same number.
C21_RowNumberIsSheetRow == NumberedFrom(1)

\* C21 witness: a run is in progress over a sheet with an empty line between
\* two data lines; the preview lines and the rows are numbered 2 and 4.
C21_Witness ==
    /\ pc = "loop"
    /\ file = XlsxFile(<<CellsA, EmptyCells, CellsB>>)
    /\ <<line_ids[1].row_no, line_ids[2].row_no>> = <<2, 4>>
    /\ <<rows[1].no, rows[2].no>> = <<2, 4>>

\* _parse_str has returned for the cell
StrReturned == call.fn = "_parse_str" /\ call.done

\* the text of the cell before the padding: nothing for an empty cell, the
\* digits of an integer or an integral float, the stripped text otherwise
Normalized(cell) ==
    CASE cell.kind = "text" -> Strip(cell.text)
      [] cell.kind = "int" -> StrNat(cell.n)
      [] cell.kind = "float" /\ cell.tenths = 0 -> StrNat(cell.whole)
      [] cell.kind = "float" /\ cell.tenths # 0 ->
            StrNat(cell.whole) \o <<".">> \o StrNat(cell.tenths)
      [] OTHER -> <<>>

\* C22: _parse_str returns the normalized text of the cell with one "0" in
\* front exactly when that text is 10 characters long, all of them digits,
\* and begins with "1"; every other text, such as a 9-digit number or a
\* 10-character text with a letter in it, is returned as it is, and an
\* integral float is rendered without a fractional part.
C22_PadsTenDigitNumbersOnly ==
    StrReturned =>
        LET result == Normalized(call.raw)
        IN call.ret =
              IF Len(result) = 10 /\ AllDigits(result) /\ result[1] = "1"
              THEN <<"0">> \o result
              ELSE result

\* _parse_date has returned for a text cell
DateReturned ==
    call.fn = "_parse_date" /\ call.done /\ call.raw.kind = "text"

\* the four formats in the order of the loop: the separator, and the
\* positions of the year, the month and the day among the three fields
DateFormats ==
    <<[sep |-> "-", order |-> <<1, 2, 3>>],
      [sep |-> "/", order |-> <<3, 2, 1>>],
      [sep |-> "-", order |-> <<3, 2, 1>>],
      [sep |-> "/", order |-> <<3, 1, 2>>]>>

\* the date the k-th format reads in the text, NoDate when it does not match
ReadAs(t, k) == TryFormat(Strip(t), DateFormats[k].sep, DateFormats[k].order)

Jan31 == <<2024, 1, 31>>

\* what _parse_date returned for the text, when the text is `t`
Gives(t, d) == call.raw.text = t => call.ret = d

\* C23: _parse_date returns, for a text, the date read by the first of
\* YYYY-MM-DD, DD/MM/YYYY, DD-MM-YYYY, MM/DD/YYYY that matches it, and no
\* date when none matches: "2024-01-31", "31/01/2024", "31-01-2024" and
\* "01/31/2024" give 31 January 2024, "01/02/2024" gives 1 February 2024,
\* "2024-31-01" gives no date.
C23_FirstFormatWins ==
    DateReturned =>
        /\ \A k \in 1..4 :
              (/\ ReadAs(call.raw.text, k) # NoDate
               /\ \A j \in 1..(k - 1) : ReadAs(call.raw.text, j) = NoDate)
                  => call.ret = ReadAs(call.raw.text, k)
        /\ (\A k \in 1..4 : ReadAs(call.raw.text, k) = NoDate)
              => call.ret = NoDate
        /\ Gives(DateIso, Jan31)
        /\ Gives(DateDMY, Jan31)
        /\ Gives(<<"3", "1", "-", "0", "1", "-", "2", "0", "2", "4">>, Jan31)
        /\ Gives(<<"0", "1", "/", "3", "1", "/", "2", "0", "2", "4">>, Jan31)
        /\ Gives(<<"0", "1", "/", "0", "2", "/", "2", "0", "2", "4">>,
                 <<2024, 2, 1>>)
        /\ Gives(DateBad, NoDate)

\* C23 witness: _parse_date has returned 1 February 2024 for "01/02/2024",
\* a text that the second and the fourth format both match.
C23_Witness ==
    /\ DateReturned
    /\ call.raw.text = <<"0", "1", "/", "0", "2", "/", "2", "0", "2", "4">>
    /\ ReadAs(call.raw.text, 2) = <<2024, 2, 1>>
    /\ ReadAs(call.raw.text, 4) = <<2024, 1, 2>>
    /\ call.ret = <<2024, 2, 1>>

\* the columns of the workbook output_file holds
Columns == output_file.content

\* C24: the template button is enabled whenever no call is running, in
\* state draft, preview and done and with no file uploaded; it raises
\* nothing, and the workbook it writes has exactly one header column for
\* each of the 28 recognized headers, a header having the required style
\* exactly when its field is in the required set.
C24_TemplateAlwaysComplete ==
    /\ pc = "idle" => ENABLED action_download_template
    /\ lastOp = "template" =>
          /\ raised = NoError
          /\ output_file.kind = "template"
          /\ Len(Columns) = 28
          /\ \A h \in Headers :
                Cardinality({i \in 1..Len(Columns) : Columns[i].header = h})
                    = 1
          /\ \A i \in 1..Len(Columns) :
                /\ Columns[i].header \in Headers
                /\ Columns[i].style = "required"
                      <=> FieldOf(Columns[i].header) \in REQUIRED_FIELDS

\* C24 witness: the template was generated on a wizard in state done, after
\* an import, and the column of the optional Department header has the
\* optional style.
C24_Witness ==
    /\ lastOp = "template"
    /\ state = "done"
    /\ output_file.kind = "template"
    /\ Columns[6] = [header |-> "Department", style |-> "optional",
                     number_format |-> "General"]

\* the step is a call of action_confirm_import, from its first line
CallsConfirm == pc = "idle" /\ lastOp' \in {"confirm_begin", "confirm_raised"}

\* C25: a call of action_confirm_import in state draft or done raises and
\* changes nothing; only in state preview does it enter the row loop. The
\* call that completes leaves the wizard in state done, only a validation
\* pass brings it to preview, and only the row loop (or another session)
\* writes to the store: nothing is written before a validation pass, and
\* after a completed import nothing is committed again until a new
\* validation pass.
C25_ConfirmOnlyInPreview ==
    [][/\ (CallsConfirm /\ state # "preview") =>
             /\ lastOp' = "confirm_raised"
             /\ raised' = UserError("Please validate the file before importing.")
             /\ pc' = "idle"
             /\ store' = store
             /\ logs' = logs
             /\ line_ids' = line_ids
             /\ state' = state
             /\ UNCHANGED <<wizardFields, outputs, runLocals>>
       /\ pc' = "loop" => state' = "preview"
       /\ lastOp' = "confirm_done" => state' = "done"
       /\ (state' = "preview" /\ state # "preview") => lastOp' = "validate"
       /\ store' # store => (pc = "loop" \/ lastOp' = "other")]_vars

\* C25 witness: after a completed import the wizard is in state done and a
\* second press of the confirm button has raised.
C25_Witness ==
    /\ state = "done"
    /\ prevOp = "confirm_done"
    /\ lastOp = "confirm_raised"
    /\ raised = UserError("Please validate the file before importing.")
    /\ Len(logs) = 1

\* C26: under either policy, every row for which a commit was attempted in
\* the run has a preview line written by the preceding validation pass,
\* and that line is valid; a row of the re-read file without a preview
\* line is not committed.
C26_CommitsOnlyValidatedRows ==
    InOrAfterRun =>
        \A n \in attempted :
            /\ HasLine(line_ids, n)
            /\ LineOf(line_ids, n).is_valid

\* the header of a reference column and the field it is written to
RefFields ==
    {<<"Supervisor", "supervisor_id">>,
     <<"Dotted Supervisor", "dotted_supervisor_id">>,
     <<"Line Manager", "parent_id">>}

\* the person records of the store created for the row
PersonsOf(row_data) ==
    {e \in store.employee :
        /\ e.id >= tx.store.next_id
        /\ e.employee_id_no = ParseStr(Get(row_data, "Employee ID"))}

\* C27: when a run has completed on a store nobody else wrote to, every row
\* that was committed has, for each non-empty supervisor, dotted-supervisor
\* and line-manager cell, its person record linked to the employee that
\* validation resolved the cell to; no such reference is left unset.
C27_ReferencesLinkedAsValidated ==
    lastOp = "confirm_done" =>
        \A i \in 1..Len(rows) :
            rows[i].no \in Committed =>
                \A e \in PersonsOf(rows[i]), rf \in RefFields :
                    LET raw_val == Strip(Get(rows[i], rf[1]))
                    IN raw_val # <<>> =>
                          /\ e[rf[2]] # 0
                          /\ e[rf[2]] = ResolveEmployeeRef(tx.store, raw_val)

\* the person record is linked to the department and the job the row names
LinkedAsNamed(e, row_data) ==
    LET company_name == ParseStr(Get(row_data, "Business Unit"))
        dept_name == ParseStr(Get(row_data, "Department"))
        job_name == ParseStr(Get(row_data, "Designation"))
    IN /\ dept_name # <<>> =>
             /\ e.department_id = <<dept_name, company_name>>
             /\ e.department_id \in store.department
       /\ job_name # <<>> =>
             /\ e.job_id = job_name
             /\ e.job_id \in store.job

\* C28: when a run has completed, the person record of every committed row
\* whose Department cell is filled points to a department of that name
\* under the row's company, and to a job of the name in its Designation
\* cell when that is filled, found or created; a row whose department or
\* job can be neither found nor created is not imported with the field
\* left unset.
C28_DepartmentAndJobLinked ==
    lastOp = "confirm_done" =>
        \A i \in 1..Len(rows) :
            rows[i].no \in Committed =>
                \A e \in PersonsOf(rows[i]) : LinkedAsNamed(e, rows[i])

\* the row the i-th preview line was validated from
RowOf(i) == ParseExcel(file)[i]

CompanyOf(i) == ParseStr(Get(RowOf(i), "Business Unit"))
DeptOf(i) == ParseStr(Get(RowOf(i), "Department"))
JobOf(i) == ParseStr(Get(RowOf(i), "Designation"))

\* C29: after a validation pass, a line whose company is one of the store
\* carries a department error exactly when its department cell is filled,
\* no department of that name exists under that company (one under another
\* company does not count) and create_missing_departments is off; it
\* carries a job error exactly when its designation cell is filled, no job
\* has that name and create_missing_jobs is off.
C29_AbsenceIsErrorOnlyWithoutFlag ==
    state = "preview" =>
        \A i \in 1..Len(line_ids) :
            /\ CompanyOf(i) \in store.company =>
                  (ErrorsAbout(line_ids[i], "Department") # {}
                     <=> /\ DeptOf(i) # <<>>
                         /\ <<DeptOf(i), CompanyOf(i)>> \notin store.department
                         /\ ~create_missing_departments)
            /\ ErrorsAbout(line_ids[i], "Designation") # {}
                  <=> /\ JobOf(i) # <<>>
                      /\ JobOf(i) \notin store.job
                      /\ ~create_missing_jobs

\* C29 witness: a line names, under the second company, a department that
\* exists only under the first; with create_missing_departments off and
\* create_missing_jobs on it carries a department error and no job error.
C29_Witness ==
    /\ state = "preview"
    /\ ~create_missing_departments
    /\ create_missing_jobs
    /\ CompanyOf(1) = Beta
    /\ DeptOf(1) = Ops
    /\ JobOf(1) = QA
    /\ ErrorsAbout(line_ids[1], "Department") =
          {Err("not_found", "Department", Ops, 0, Beta)}
    /\ ErrorsAbout(line_ids[1], "Designation") = {}

\* C30: after a validation pass, a line whose company cell names no company
\* of the store carries exactly one company error and no department error,
\* whatever its department cell and the option.
C30_UnknownCompanySuppressesDepartment ==
    state = "preview" =>
        \A i \in 1..Len(line_ids) :
            (CompanyOf(i) # <<>> /\ CompanyOf(i) \notin store.company) =>
                /\ Len(SelectSeq(line_ids[i].error_text,
                                 LAMBDA e : e.label = "Business Unit")) = 1
                /\ ErrorsAbout(line_ids[i], "Business Unit") =
                      {Err("not_found", "Business Unit", CompanyOf(i), 0, <<>>)}
                /\ ErrorsAbout(line_ids[i], "Department") = {}

\* C30 witness: a line names an unknown company and a department no company
\* has, with create_missing_departments off; its only error is the company
\* error.
C30_Witness ==
    /\ state = "preview"
    /\ ~create_missing_departments
    /\ CompanyOf(1) = Nope
    /\ DeptOf(1) = Lab
    /\ JobOf(1) = <<>>
    /\ line_ids[1].error_text =
          <<Err("not_found", "Business Unit", Nope, 0, <<>>)>>

\* the ids of the employees the run started with that hold the token in
\* the field
Holders(field, token) ==
    {e.id : e \in {h \in tx.store.employee : h[field] = token}}

\* the employee a token stands for: none for an empty token, else the one
\* whose ID number it is, else the one whose work email it is, else none
StandsFor(token) ==
    IF token = <<>> THEN {0}
    ELSE IF Holders("employee_id_no", token) # {}
    THEN Holders("employee_id_no", token)
    ELSE IF Holders("work_email", token) # {}
    THEN Holders("work_email", token)
    ELSE {0}

\* C31: a reference token is resolved as an ID number first and as a work
\* email second, the first hit wins, and an empty token resolves to nobody
\* even when an employee has an empty e-mail. After a validation pass a line
\* carries an error for a supervisor, dotted-supervisor or line-manager
\* cell exactly when the cell is filled and stands for nobody; after a
\* completed run the person record of a committed row points, for each of
\* the three fields, to the employee the token read at commit stands for.
C31_IdNumberBeforeEmail ==
    /\ state = "preview" =>
          \A i \in 1..Len(line_ids), rf \in RefFields :
              LET raw_val == Strip(Get(RowOf(i), rf[1]))
              IN ErrorsAbout(line_ids[i], rf[1]) =
                    IF raw_val # <<>>
                       /\ \A e \in store.employee :
                             /\ e.employee_id_no # raw_val
                             /\ e.work_email # raw_val
                    THEN {Err("unresolved", rf[1], raw_val, 0, <<>>)}
                    ELSE {}
    /\ lastOp = "confirm_done" =>
          \A i \in 1..Len(rows) :
              rows[i].no \in Committed =>
                  \A e \in PersonsOf(rows[i]), rf \in RefFields :
                      e[rf[2]] \in StandsFor(ParseStr(Get(rows[i], rf[1])))

\* C31 witness: a committed row names as supervisor a token that is the ID
\* number of one employee and the work email of another, and leaves the
\* line manager empty; the person points to the former and has no manager.
C31_Witness ==
    /\ lastOp = "confirm_done"
    /\ Committed = {2}
    /\ Get(rows[1], "Supervisor") = M0
    /\ Get(rows[1], "Line Manager") = <<>>
    /\ Holders("employee_id_no", M0) = {4}
    /\ Holders("work_email", M0) = {1}
    /\ \E e \in PersonsOf(rows[1]) :
          e.supervisor_id = 4 /\ e.parent_id = 0

\* the country the cell of the row names, as the '=ilike' search reads it
CountryNamed(row_data) ==
    {n \in store.country :
        Lower(n) = Lower(ParseStr(Get(row_data, "Nationality (Country)")))}

\* C32: no validation pass and no run, under any option, creates a company
\* or a country. When a run has completed, a row whose company cell names
\* no company was not committed and, if its import was attempted, is
\* listed as failed; a committed row whose country cell names no country
\* has its person record without a country, and one that names a country
\* has it linked.
C32_CompanyAndCountryLookupOnly ==
    /\ store.company = InitStore.company
    /\ store.country = InitStore.country
    /\ lastOp = "confirm_done" =>
          \A i \in 1..Len(rows) :
              /\ ParseStr(Get(rows[i], "Business Unit")) \notin store.company
                    => /\ rows[i].no \notin Committed
                       /\ PersonsOf(rows[i]) = {}
                       /\ rows[i].no \in attempted =>
                             \E k \in 1..Len(failed_rows) :
                                 failed_rows[k].row_no = rows[i].no
              /\ rows[i].no \in Committed =>
                    \A e \in PersonsOf(rows[i]) :
                        IF CountryNamed(rows[i]) = {}
                        THEN e.country_id = <<>>
                        ELSE e.country_id \in CountryNamed(rows[i])

\* C32 witness: the file was replaced after validation by one whose line
\* names an unknown company; the run has completed, the import of the row
\* was tried and failed, and no company was created.
C32_Witness ==
    /\ lastOp = "confirm_done"
    /\ Len(rows) = 1
    /\ Get(rows[1], "Business Unit") = Nope
    /\ attempted = {2}
    /\ Committed = {}
    /\ Len(failed_rows) = 1
    /\ store.company = {Acme}

\* the line carries the three store-side conflicts of its keys
ConflictsOnAllKeys(ln) ==
    /\ ~ln.is_valid
    /\ \A label \in {"Employee ID", "Device ID", "Work Email"} :
          \E k \in 1..Len(ln.error_text) :
              /\ ln.error_text[k].code = "exists"
              /\ ln.error_text[k].label = label

\* the persons the wizard had created before the run began
ImportedBefore ==
    {e \in tx.store.employee : e.id >= InitStore.next_id}

\* C33: when the file is validated again right after a completed partial
\* run, every row the run committed gets a line that is invalid and names
\* the conflict on its ID number, its device ID and its work email; and in
\* no run is a row committed whose ID number, device ID or work email a
\* person or account imported by an earlier run already holds.
C33_ImportedRowsRejectedOnRevalidation ==
    /\ (lastOp = "validate" /\ prevOp = "confirm_done" /\ ~stop_on_error) =>
          \A n \in Committed :
              /\ HasLine(line_ids, n)
              /\ ConflictsOnAllKeys(LineOf(line_ids, n))
    /\ InOrAfterRun =>
          \A i \in 1..Len(rows) :
              rows[i].no \in Committed =>
                  \A e \in ImportedBefore :
                      /\ e.employee_id_no # ParseStr(Get(rows[i], "Employee ID"))
                      /\ e.device_user_id # ParseStr(Get(rows[i], "Device ID"))
                      /\ e.work_email # ParseStr(Get(rows[i], "Work Email"))

\* C33 witness: a second run over the same file has completed after a
\* partial run that imported both rows; every line is invalid and the
\* second run committed nothing.
C33_Witness ==
    /\ lastOp = "confirm_done"
    /\ ~stop_on_error
    /\ Len(logs) = 2
    /\ logs[1].imported_count = 2
    /\ logs[2].imported_count = 0
    /\ committed = <<>>
    /\ Cardinality(ImportedBefore) = 2
    /\ \A i \in 1..Len(line_ids) : ConflictsOnAllKeys(line_ids[i])

\* C34: generating the template, in any wizard state, leaves the outcome
\* report the wizard holds, the error report, the import summary, the
\* preview lines, the wizard state and the import log as they were.
C34_TemplateLeavesArtifactsAlone ==
    [][lastOp' = "template" =>
          /\ output_file' = output_file
          /\ error_file' = error_file
          /\ import_summary' = import_summary
          /\ import_log_id' = import_log_id
          /\ line_ids' = line_ids
          /\ state' = state
          /\ logs' = logs]_vars

====
